---------------------------- MODULE Spec2Model ----------------------------
(***************************************************************************)
(* A model of the 3DCF core of doc2dataset: the encoder pipeline           *)
(* (crates/core/src/encoder.rs), the document model and its binary codec   *)
(* (crates/core/src/document.rs), the line normalizer                      *)
(* (crates/core/src/normalization.rs), the NumGuard extractor              *)
(* (crates/core/src/numguard.rs) and the encode / decode commands of the   *)
(* command line (crates/cli/src/main.rs).                                  *)
(*                                                                         *)
(* Text is modelled as a sequence of characters, each character a string.  *)
(* A hash (BLAKE3, SHA-1) is modelled as a collision-free constructor      *)
(* wrapping the hashed text: equal inputs give equal hashes and different  *)
(* inputs give different hashes.                                           *)
(***************************************************************************)
EXTENDS Integers, Sequences, FiniteSets, TLC

VARIABLES
    pc,         \* position of the operation under way
    text,       \* encoder: the file content, a sequence of lines and form feeds
    cfg,        \* encoder: the EncoderConfig fields that vary
    input,      \* encoder: EncodeInput.pages
    results,    \* encoder: page position -> PageResult, or NoResult (par_iter slots)
    order,      \* encoder: the order in which the page workers finished
    doc,        \* the Document under construction, decoded or verified
    assembled,  \* encoder history: doc.cells as assembled, before apply_budget
    budgeted,   \* encoder history: doc.cells as apply_budget left them
    dedupIn,    \* encoder history: the cells the dedup pass of post_filters read
    wire,       \* codec: the proto::Document written by to_proto
    decoded,    \* codec: the Document from_proto returned
    cmd,        \* cli: the command and its flags
    alerts,     \* cli: the alert list of numguard_mismatches_with_units
    outputs,    \* cli: what the command has written so far
    status,     \* cli: "running", "ok" or the error the command returned
    rows,       \* rag store: the committed rows of the cells table
    tx,         \* rag store: the open transaction of add_cells, if any
    search,     \* rag store: what search_cells read and what it returned
    query,      \* rag store: the collection, embedding and SearchFilters
    workers,    \* embed: per pending chunk, the state of embed_with_retry
    cache,      \* embed: the EmbedCache (entries, dirty, path)
    cacheFile,  \* embed: the entries held by the cache file, if it exists
    cursor,     \* encode_page: the line reached and the running y
    chunker,    \* chunker: the loop of chunk_document (cells, config, start, chunks)
    norms,      \* normalizer: the raw lines and what normalize_lines made of them
    reader,     \* jsonl: the lines of the file, the line reached, the records loaded
    hooks,      \* doc2dataset: the RunConfig and the hook calls made so far
    indexer,    \* rag index: the documents table and the step rag_index_file reached
    redacted,   \* encrypt: the cells handed to redact_cells and the list it returned
    colls       \* rag store: the collections table and the callers of ensure_collection

vars == <<pc, text, cfg, input, results, order, doc, assembled, budgeted,
          dedupIn, wire, decoded, cmd, alerts, outputs, status,
          rows, tx, search, query, workers, cache, cacheFile, cursor,
          chunker, norms, reader, hooks, indexer, redacted, colls>>

encVars == <<text, cfg, input, results, order, assembled, budgeted, dedupIn>>
codecVars == <<wire, decoded>>
cliVars == <<cmd, alerts, outputs, status>>
ragVars == <<rows, tx, search, query>>
embedVars == <<workers, cache, cacheFile>>
auxVars == <<chunker, norms, reader, hooks, indexer, redacted, colls>>

\* An Option<T> is modelled as a sequence: <<>> is None and <<v>> is Some(v).

-----------------------------------------------------------------------------
(* Characters and strings                                                  *)

UpperLetters == <<"A","B","C","D","E","F","G","H","I","J","K","L","M",
                  "N","O","P","Q","R","S","T","U","V","W","X","Y","Z">>

LowerLetters == <<"a","b","c","d","e","f","g","h","i","j","k","l","m",
                  "n","o","p","q","r","s","t","u","v","w","x","y","z">>

AsciiDigits == {"0","1","2","3","4","5","6","7","8","9"}

Range(s) == {s[i] : i \in DOMAIN s}

UpperSet == Range(UpperLetters)

LowerSet == Range(LowerLetters)

is_uppercase(c) == c \in UpperSet

is_lowercase(c) == c \in LowerSet

is_alphabetic(c) == is_uppercase(c) \/ is_lowercase(c)

is_ascii_digit(c) == c \in AsciiDigits

\* The no-break space U+00A0, the model's one character outside ASCII
NBSP == "NBSP"

\* char::is_whitespace on the model's alphabet
is_whitespace(c) == c \in {" ", "\t", "\f", "\n", NBSP}

\* char::is_control on the model's alphabet: tab, form feed and newline are Cc
is_control(c) == c \in {"\t", "\f", "\n"}

to_lowercase_char(c) ==
    IF is_uppercase(c)
    THEN LowerLetters[CHOOSE i \in DOMAIN UpperLetters : UpperLetters[i] = c]
    ELSE c

to_lowercase(s) == [i \in DOMAIN s |-> to_lowercase_char(s[i])]

SetMin(S) == CHOOSE m \in S : \A n \in S : m <= n

SetMax(S) == CHOOSE m \in S : \A n \in S : m >= n

Filter(s, Keep(_)) == SelectSeq(s, Keep)

trim_start_matches(s, Strip(_)) ==
    LET keep == {i \in DOMAIN s : ~Strip(s[i])}
    IN  IF keep = {} THEN <<>> ELSE SubSeq(s, SetMin(keep), Len(s))

trim_end_matches(s, Strip(_)) ==
    LET keep == {i \in DOMAIN s : ~Strip(s[i])}
    IN  IF keep = {} THEN <<>> ELSE SubSeq(s, 1, SetMax(keep))

trim_start(s) == trim_start_matches(s, is_whitespace)

trim_end(s) == trim_end_matches(s, is_whitespace)

trim(s) == trim_end(trim_start(s))

\* s has t as a substring starting at position i
HasAt(s, t, i) ==
    /\ i >= 1
    /\ i + Len(t) - 1 <= Len(s)
    /\ \A k \in 1..Len(t) : s[i + k - 1] = t[k]

contains(s, t) == \E i \in 1..(Len(s) + 1) : HasAt(s, t, i)

RECURSIVE split_whitespace_from(_, _, _)
split_whitespace_from(s, i, word) ==
    IF i > Len(s) THEN (IF word = <<>> THEN <<>> ELSE <<word>>)
    ELSE IF is_whitespace(s[i])
         THEN (IF word = <<>> THEN <<>> ELSE <<word>>)
              \o split_whitespace_from(s, i + 1, <<>>)
         ELSE split_whitespace_from(s, i + 1, Append(word, s[i]))

split_whitespace(s) == split_whitespace_from(s, 1, <<>>)

Max(a, b) == IF a >= b THEN a ELSE b

Min(a, b) == IF a <= b THEN a ELSE b

-----------------------------------------------------------------------------
(* normalization.rs                                                        *)

\* The NFKC form of one character. The model's alphabet is ASCII, which NFKC
\* leaves alone, plus the no-break space, whose compatibility form is a space.

nfkc_char(c) == IF c = NBSP THEN " " ELSE c

nfkc(s) == [i \in DOMAIN s |-> nfkc_char(s[i])]

is_control_or_whitespace(c) == is_control(c) \/ is_whitespace(c)

RECURSIVE collapse_whitespace(_, _)
collapse_whitespace(s, prev_space) ==
    IF s = <<>> THEN <<>>
    ELSE IF is_control(Head(s)) THEN collapse_whitespace(Tail(s), prev_space)
    ELSE IF is_whitespace(Head(s))
         THEN (IF prev_space THEN <<>> ELSE <<" ">>)
              \o collapse_whitespace(Tail(s), TRUE)
         ELSE <<Head(s)>> \o collapse_whitespace(Tail(s), FALSE)

normalize_line(line) ==
    LET trimmed == trim_end_matches(
                       trim_start_matches(line, is_control_or_whitespace),
                       is_control_or_whitespace)
    IN  trim(collapse_whitespace(nfkc(trimmed), FALSE))

is_hyphen(c) == c = "-"

\* The fold of merge_hyphenation's loop: <<out, carry>> after the lines read.
RECURSIVE merge_hyphenation_loop(_, _, _)
merge_hyphenation_loop(lines, out, carry) ==
    IF lines = <<>> THEN <<out, carry>>
    ELSE LET line == Head(lines)
             current == IF carry = <<>> THEN line ELSE carry \o trim_start(line)
             trimmed == trim_end(current)
         IN  IF trimmed # <<>> /\ trimmed[Len(trimmed)] = "-" /\ Len(trimmed) > 1
             THEN merge_hyphenation_loop(Tail(lines), out,
                                         trim_end_matches(trimmed, is_hyphen))
             ELSE merge_hyphenation_loop(Tail(lines), Append(out, current), <<>>)

merge_hyphenation(lines) ==
    LET r == merge_hyphenation_loop(lines, <<>>, <<>>)
    IN  IF r[2] # <<>> THEN Append(r[1], r[2]) ELSE r[1]

NonEmpty(line) == line # <<>>

normalize_lines(lines, mode) ==
    LET merged == IF mode = "Merge" THEN merge_hyphenation(lines) ELSE lines
    IN  Filter([i \in DOMAIN merged |-> normalize_line(merged[i])], NonEmpty)

\* \b of the regex crate: a word character on exactly one side of position p
\* (between s[p-1] and s[p])
is_word_char(c) == is_alphabetic(c) \/ is_ascii_digit(c) \/ c = "_"

WordBoundaryAt(s, p) ==
    LET before == p - 1 >= 1 /\ p - 1 <= Len(s) /\ is_word_char(s[p - 1])
        after == p >= 1 /\ p <= Len(s) /\ is_word_char(s[p])
    IN  before # after

\* t occurs in s at i with a word boundary on both sides
WordAt(s, t, i) ==
    HasAt(s, t, i) /\ WordBoundaryAt(s, i) /\ WordBoundaryAt(s, i + Len(t))

TableLeadWords == { <<"t","o","t","a","l">>,
                    <<"s","u","b","t","o","t","a","l">>,
                    <<"a","m","o","u","n","t">> }

TableUnitWords == { <<"u","s","d">>, <<"e","u","r">>, <<"%">> }

\* TABLE_RE: \b(total|subtotal|amount)\b.*\b(usd|eur|%)\b
TABLE_RE_is_match(s) ==
    \E a \in TableLeadWords, b \in TableUnitWords :
        \E i \in 1..Len(s), j \in 1..Len(s) :
            WordAt(s, a, i) /\ j >= i + Len(a) /\ WordAt(s, b, j)

looks_like_table(line) ==
    \/ "|" \in Range(line)
    \/ "\t" \in Range(line)
    \/ TABLE_RE_is_match(to_lowercase(line))

RECURSIVE longest_space_run_from(_, _, _)
longest_space_run_from(s, current, best) ==
    IF s = <<>> THEN best
    ELSE IF Head(s) = " "
         THEN longest_space_run_from(Tail(s), current + 1, Max(best, current + 1))
         ELSE longest_space_run_from(Tail(s), 0, best)

longest_space_run(line) == longest_space_run_from(line, 0, 0)

looks_like_table_with_tolerance(line, tolerance_px) ==
    IF looks_like_table(line) THEN TRUE
    ELSE IF Len(split_whitespace(line)) < 3 THEN FALSE
    ELSE longest_space_run(line) >= Max(tolerance_px \div 8, 2)

is_all_caps(line) ==
    LET letters == Filter(line, is_alphabetic)
    IN  letters # <<>> /\ \A i \in DOMAIN letters : is_uppercase(letters[i])

looks_like_header(line) ==
    Len(Filter(line, is_alphabetic)) > 3 /\ is_all_caps(line)

looks_like_footer(line) ==
    LET lower == to_lowercase(line)
    IN  \/ contains(lower, <<"p","a","g","e"," ">>)
        \/ contains(lower, <<"c","o","n","f","i","d","e","n","t","i","a","l">>)

classify_cell_type(line) ==
    IF looks_like_table(line) THEN "Table"
    ELSE IF looks_like_header(line) THEN "Header"
    ELSE IF looks_like_footer(line) THEN "Footer"
    ELSE "Text"

contains_numbers(line) == \E i \in DOMAIN line : is_ascii_digit(line[i])

\* ImportanceTuning::default(): heading_boost 1.0, number_boost 1.0,
\* footer_penalty 0.5, early_line_bonus 1.0; line_index counts from 0
importance_score(line, cell_type, line_index) ==
    LET base == CASE cell_type = "Header" -> 220
                  [] cell_type = "Footer" -> 20
                  [] cell_type = "Table" -> 160
                  [] OTHER -> 100
        heading_bonus == IF is_all_caps(line) THEN 35 ELSE 0
        number_bonus == IF contains_numbers(line) THEN 20 ELSE 0
        early_bonus == IF line_index < 5 THEN 15 ELSE 0
        length_penalty == (Len(line) \div 120) * (-10)
        score == base + heading_bonus + number_bonus + early_bonus + length_penalty
    IN  Max(0, Min(255, score))

-----------------------------------------------------------------------------
(* numguard.rs                                                             *)

\* SHA-1 and BLAKE3 as collision-free constructors
sha1_from_digits(digits) == [sha1 |-> digits]

hash_payload(payload) == [blake3 |-> payload]

\* the units of NUM_RE in the order of its alternation
NumUnits == << <<"%">>, <<"m","m","h","g">>, <<"m","m">>, <<"c","m">>,
               <<"m","g">>, <<"k","g">>, <<"u","s","d">>, <<"e","u","r">>,
               <<"b","p","m">> >>

IsDigitAt(s, i) == i >= 1 /\ i <= Len(s) /\ is_ascii_digit(s[i])

RECURSIVE DigitRunEnd(_, _, _)
\* the position after the digits starting at i, reading at most `most` of them
DigitRunEnd(s, i, most) ==
    IF most > 0 /\ IsDigitAt(s, i) THEN DigitRunEnd(s, i + 1, most - 1) ELSE i

RECURSIVE GroupsEnd(_, _)
\* (?:[,\s]\d{3})* from position j: the position after the last group
GroupsEnd(s, j) ==
    IF /\ j <= Len(s)
       /\ (s[j] = "," \/ is_whitespace(s[j]))
       /\ IsDigitAt(s, j + 1) /\ IsDigitAt(s, j + 2) /\ IsDigitAt(s, j + 3)
    THEN GroupsEnd(s, j + 4)
    ELSE j

\* (?:\.\d+)? from position j
FractionEnd(s, j) ==
    IF j <= Len(s) /\ s[j] = "." /\ IsDigitAt(s, j + 1)
    THEN DigitRunEnd(s, j + 1, Len(s))
    ELSE j

RECURSIVE SpacesEnd(_, _)
SpacesEnd(s, j) ==
    IF j <= Len(s) /\ is_whitespace(s[j]) THEN SpacesEnd(s, j + 1) ELSE j

\* One match of NUM_RE starting at the digit at position i: the num group is
\* s[i..num_end-1], the unit group is `unit` (<<>> when absent), and the next
\* search starts at `next`.
NumMatchAt(s, i) ==
    LET num_end == FractionEnd(s, GroupsEnd(s, DigitRunEnd(s, i, 3)))
        k == SpacesEnd(s, num_end)
        hits == {u \in DOMAIN NumUnits : HasAt(s, NumUnits[u], k)}
        unit == IF hits = {} THEN <<>> ELSE NumUnits[SetMin(hits)]
    IN  [num |-> SubSeq(s, i, num_end - 1), unit |-> unit,
         next |-> IF hits = {} THEN k ELSE k + Len(unit)]

RECURSIVE captures_iter(_, _)
\* NUM_RE.captures_iter: the matches of NUM_RE in s from position i on
captures_iter(s, i) ==
    IF i > Len(s) THEN <<>>
    ELSE IF ~is_ascii_digit(s[i]) THEN captures_iter(s, i + 1)
    ELSE LET m == NumMatchAt(s, i) IN <<m>> \o captures_iter(s, m.next)

HasDigits(cap) == Filter(cap.num, is_ascii_digit) # <<>>

extract_guards(line, z, x, y) ==
    LET caps == Filter(captures_iter(to_lowercase(line), 1), HasDigits)
    IN  [i \in DOMAIN caps |->
            [z |-> z, x |-> x, y |-> y, units |-> caps[i].unit,
             sha1 |-> sha1_from_digits(Filter(caps[i].num, is_ascii_digit))]]

\* Option<[u8; 20]>: <<>> is None, <<h>> is Some(h)
hash_digits_from_payload(payload) ==
    LET digits == Filter(payload, is_ascii_digit)
    IN  IF digits = <<>> THEN <<>> ELSE <<sha1_from_digits(digits)>>

-----------------------------------------------------------------------------
(* document.rs: the Document model                                         *)

\* Document::new(Header { version: 1, grid, codeset })
NewDocument ==
    [header |-> [version |-> 1, grid |-> "coarse", codeset |-> "HASH256"],
     pages |-> <<>>, cells |-> <<>>, dict |-> <<>>, numguards |-> <<>>]

\* CellRecord::key
key(c) == <<c.z, c.y, c.x>>

TupleLess(a, b) ==
    \/ a[1] < b[1]
    \/ a[1] = b[1] /\ a[2] < b[2]
    \/ a[1] = b[1] /\ a[2] = b[2] /\ a[3] < b[3]

KeyLess(a, b) == TupleLess(key(a), key(b))

\* slice::sort_by_key, a stable sort: an element goes after the elements that
\* are less and after the equal elements that came before it
stable_sort(s, Less(_, _)) ==
    LET rank(i) == 1 + Cardinality({j \in DOMAIN s :
                        Less(s[j], s[i]) \/ (~Less(s[i], s[j]) /\ j < i)})
    IN  [p \in DOMAIN s |-> s[CHOOSE i \in DOMAIN s : rank(i) = p]]

sort_by_key(cells) == stable_sort(cells, KeyLess)

ordered_cells(d) == sort_by_key(d.cells)

\* The dictionary is an IndexMap: a sequence of <<code, payload>> entries in
\* insertion order, no code twice.
DictKeys(dict) == {dict[i][1] : i \in DOMAIN dict}

\* dict.entry(code).or_insert(payload)
entry_or_insert(dict, code, payload) ==
    IF code \in DictKeys(dict) THEN dict ELSE Append(dict, <<code, payload>>)

\* IndexMap::insert: an existing key keeps its place and takes the new value
dict_insert(dict, code, payload) ==
    IF code \in DictKeys(dict)
    THEN [i \in DOMAIN dict |->
            IF dict[i][1] = code THEN <<code, payload>> ELSE dict[i]]
    ELSE Append(dict, <<code, payload>>)

\* Document::payload_for: Option<&str>
payload_for(d, code_id) ==
    IF code_id \in DictKeys(d.dict)
    THEN <<d.dict[CHOOSE i \in DOMAIN d.dict : d.dict[i][1] = code_id][2]>>
    ELSE <<>>

\* a mutant of retain_dict_for_cells: the dictionary is left as it is
retain_dict_for_cells_noop(d) == d

retain_dict_for_cells(d) ==
    LET used == {d.cells[i].code_id : i \in DOMAIN d.cells}
        Used(e) == e[1] \in used
    IN  [d EXCEPT !.dict = Filter(d.dict, Used)]

-----------------------------------------------------------------------------
(* encoder.rs                                                              *)

\* Bounds of the encoder's inputs
MaxTokens == 4

MaxBudget == 3

MaxDedupWindow == 1

\* EncoderConfig::new(Reports) with the three settings the builder varies
EncoderConfig(budget, drop_footers, dedup_window_pages) ==
    [page_width_px |-> 1024, page_height_px |-> 1400,
     margin_left_px |-> 64, margin_top_px |-> 64,
     line_height_px |-> 24, line_gap_px |-> 6,
     budget |-> budget, drop_footers |-> drop_footers,
     dedup_window_pages |-> dedup_window_pages,
     hyphenation |-> "Merge", table_column_tolerance |-> 24]

RECURSIVE wrap_words(_, _, _, _)
\* the loop of wrap_line over the words: the lines pushed and the last line
wrap_words(words, width, out, current) ==
    IF words = <<>>
    THEN (IF current # <<>> THEN Append(out, trim(current)) ELSE out)
    ELSE LET word == Head(words)
             flush == Len(current) + Len(word) + 1 > width /\ current # <<>>
             out1 == IF flush THEN Append(out, trim(current)) ELSE out
             cur1 == IF flush THEN <<>> ELSE current
             cur2 == (IF cur1 # <<>> THEN Append(cur1, " ") ELSE cur1) \o word
         IN  wrap_words(Tail(words), width, out1, cur2)

wrap_line(line, width) ==
    IF Len(line) <= width THEN <<trim(line)>>
    ELSE LET out == wrap_words(split_whitespace(line), width, <<>>, <<>>)
         IN  IF out = <<>> THEN <<trim(line)>> ELSE out

RECURSIVE from_text_lines(_, _)
from_text_lines(raw_lines, wrap_width) ==
    IF raw_lines = <<>> THEN <<>>
    ELSE (IF trim(Head(raw_lines)) = <<>> THEN << <<>> >>
          ELSE wrap_line(Head(raw_lines), wrap_width))
         \o from_text_lines(Tail(raw_lines), wrap_width)

\* PageBuffer::from_text; raw_lines is what text.lines() yields
from_text(index, raw_lines, config) ==
    LET wrap_width == Max(config.page_width_px \div 10, 40)
        lines == from_text_lines(raw_lines, wrap_width)
    IN  [index |-> index, width_px |-> config.page_width_px,
         height_px |-> config.page_height_px,
         lines |-> IF lines = <<>> THEN << <<>> >> ELSE lines]

\* text_to_pages; chunks is what text.split('\u{c}') yields, each chunk by
\* its lines, and page indices count from 0
text_to_pages(chunks, config) ==
    [i \in DOMAIN chunks |-> from_text(i - 1, chunks[i], config)]

RECURSIVE encode_lines(_, _, _, _, _)
\* the loop of encode_page from line_index on, with y as the loop holds it
encode_lines(page, normalized, line_index, y, config) ==
    IF line_index >= Len(normalized)
    THEN [cells |-> <<>>, dict_entries |-> <<>>, numguards |-> <<>>]
    ELSE LET line == normalized[line_index + 1]
             classified == classify_cell_type(line)
             cell_type ==
                 IF /\ classified = "Text"
                    /\ looks_like_table_with_tolerance(
                           line, config.table_column_tolerance)
                 THEN "Table" ELSE classified
             code_id == hash_payload(line)
             cell == [z |-> page.index, x |-> config.margin_left_px, y |-> y,
                      w |-> Max(page.width_px - config.margin_left_px * 2, 0),
                      h |-> config.line_height_px, code_id |-> code_id,
                      rle |-> 0, cell_type |-> cell_type,
                      importance |-> importance_score(line, cell_type, line_index)]
             guards == extract_guards(line, page.index, config.margin_left_px, y)
             rest == encode_lines(page, normalized, line_index + 1,
                         y + config.line_height_px + config.line_gap_px, config)
         IN  [cells |-> <<cell>> \o rest.cells,
              dict_entries |-> << <<code_id, line>> >> \o rest.dict_entries,
              numguards |-> guards \o rest.numguards]

encode_page(page, config) ==
    LET normalized == normalize_lines(page.lines, config.hyphenation)
        r == encode_lines(page, normalized, 0, config.margin_top_px, config)
    IN  [cells |-> r.cells, dict_entries |-> r.dict_entries,
         numguards |-> r.numguards, line_count |-> Len(normalized)]

\* a mutant of BudgetLess: the least important cells come first
BudgetLess_ascending(a, b) ==
    \/ a.importance < b.importance
    \/ a.importance = b.importance /\ KeyLess(a, b)

\* the sort key of apply_budget: (Reverse(c.importance), c.key())
BudgetLess(a, b) ==
    \/ a.importance > b.importance
    \/ a.importance = b.importance /\ KeyLess(a, b)

truncate(s, n) == IF Len(s) > n THEN SubSeq(s, 1, n) ELSE s

\* a mutant of apply_budget: one cell too many survives
apply_budget_one_more(d, config) ==
    IF config.budget = <<>> \/ Len(d.cells) <= config.budget[1] THEN d
    ELSE retain_dict_for_cells([d EXCEPT !.cells =
            sort_by_key(truncate(stable_sort(d.cells, BudgetLess),
                                 config.budget[1] + 1))])

apply_budget(d, config) ==
    IF config.budget = <<>> THEN d
    ELSE LET limit == config.budget[1]
         IN  IF Len(d.cells) <= limit THEN d
             ELSE retain_dict_for_cells([d EXCEPT !.cells =
                     sort_by_key(truncate(stable_sort(d.cells, BudgetLess),
                                          limit))])

abs_diff(a, b) == IF a >= b THEN a - b ELSE b - a

\* a mutant of seen_within: any earlier kept page counts, however far
seen_within_any(entry, z, window) == entry # <<>>

\* entry.iter().any(|z| cell.z.abs_diff(*z) <= dedup_window_pages)
seen_within(entry, z, window) ==
    \E i \in DOMAIN entry : abs_diff(z, entry[i]) <= window

RECURSIVE dedup_retain(_, _, _)
\* the retain closure of post_filters over the cells, with `seen` a map from
\* code_id to the pages of the cells kept so far
dedup_retain(cells, seen, window) ==
    IF cells = <<>> THEN <<>>
    ELSE LET cell == Head(cells)
             entry == IF cell.code_id \in DOMAIN seen
                      THEN seen[cell.code_id] ELSE <<>>
         IN  IF seen_within(entry, cell.z, window)
             THEN dedup_retain(Tail(cells), seen, window)
             ELSE <<cell>> \o dedup_retain(Tail(cells),
                     [c \in DOMAIN seen \cup {cell.code_id} |->
                         IF c = cell.code_id THEN Append(entry, cell.z)
                         ELSE seen[c]],
                     window)

NotFooter(c) == c.cell_type # "Footer"

\* the cells of post_filters after its footer pass
drop_footers_pass(cells, config) ==
    IF config.drop_footers THEN Filter(cells, NotFooter) ELSE cells

\* the cells of post_filters after its dedup pass
dedup_pass(cells, config) ==
    IF config.dedup_window_pages > 0
    THEN dedup_retain(cells, <<>>, config.dedup_window_pages)
    ELSE cells

post_filters(d, config) ==
    retain_dict_for_cells([d EXCEPT !.cells =
        sort_by_key(dedup_pass(drop_footers_pass(d.cells, config), config))])

\* the length of the run of equal code_id that starts at cells[i]
RECURSIVE run_length(_, _, _)
run_length(cells, i, run) ==
    IF i + run <= Len(cells) /\ cells[i + run].code_id = cells[i].code_id
    THEN run_length(cells, i, run + 1)
    ELSE run

RECURSIVE annotate_from(_, _)
annotate_from(cells, i) ==
    IF i > Len(cells) THEN cells
    ELSE LET run == run_length(cells, i, 1)
         IN  annotate_from(
                 [j \in DOMAIN cells |->
                     IF j = i THEN [cells[j] EXCEPT !.rle = run - 1]
                     ELSE IF j > i /\ j < i + run THEN [cells[j] EXCEPT !.rle = 0]
                     ELSE cells[j]],
                 i + run)

\* a mutant of annotate_rle: the first cell of a run counts itself
annotate_rle_counts_itself(cells) ==
    [j \in DOMAIN cells |->
        [annotate_from(cells, 1)[j] EXCEPT
            !.rle = IF @ > 0 THEN @ + 1 ELSE @]]

annotate_rle(cells) == annotate_from(cells, 1)

-----------------------------------------------------------------------------
(* Encoder::encode_path, a page worker per page and the post-pass          *)

\* The lines the model's files are written from: a text line holding two
\* numbers, a footer holding one number, and a text line holding none.
RawLines == { <<"1", " ", "a", " ", "2">>,
              <<"p", "a", "g", "e", " ", "3">>,
              <<"b">> }

FormFeed == <<"\f">>

Tokens == RawLines \cup {FormFeed}

TokenSeqs == UNION {[1..n -> Tokens] : n \in 0..MaxTokens}

RECURSIVE split_form_feed(_, _)
\* text.split('\u{c}') over the tokens of a file, each chunk by its lines
split_form_feed(tokens, chunk) ==
    IF tokens = <<>> THEN <<chunk>>
    ELSE IF Head(tokens) = FormFeed
         THEN <<chunk>> \o split_form_feed(Tail(tokens), <<>>)
         ELSE split_form_feed(Tail(tokens), Append(chunk, Head(tokens)))

Budgets == {<<>>} \cup {<<b>> : b \in 0..MaxBudget}

Configs == {EncoderConfig(b, f, w) :
                b \in Budgets, f \in BOOLEAN, w \in 0..MaxDedupWindow}

IdleCodec == wire = <<>> /\ decoded = <<>>

IdleCli == cmd = <<>> /\ alerts = <<>> /\ outputs = {} /\ status = "idle"

IdleEncoder ==
    /\ text = <<>> /\ cfg = <<>> /\ input = <<>> /\ results = <<>>
    /\ order = <<>> /\ assembled = <<>> /\ budgeted = <<>> /\ dedupIn = <<>>

IdleRag == rows = <<>> /\ tx = <<>> /\ search = <<>> /\ query = <<>>

IdleEmbed == workers = <<>> /\ cache = <<>> /\ cacheFile = <<>>

IdleLayout == cursor = <<>>

IdleAux ==
    /\ chunker = <<>> /\ norms = <<>> /\ reader = <<>> /\ hooks = <<>>
    /\ indexer = <<>> /\ redacted = <<>> /\ colls = <<>>

Init ==
    /\ pc = "start"
    /\ text \in {split_form_feed(t, <<>>) : t \in TokenSeqs}
    /\ cfg \in Configs
    /\ input = <<>>
    /\ results = <<>>
    /\ order = <<>>
    /\ doc = NewDocument
    /\ assembled = <<>>
    /\ budgeted = <<>>
    /\ dedupIn = <<>>
    /\ IdleCodec
    /\ IdleCli
    /\ IdleRag /\ IdleEmbed /\ IdleLayout /\ IdleAux

\* encode_path up to the fan-out: from_path reads the pages, encode creates
\* the Document and adds a PageInfo per page
BeginEncode ==
    /\ pc = "start"
    /\ LET pages == text_to_pages(text, cfg)
       IN  /\ input' = pages
           /\ doc' = [NewDocument EXCEPT !.pages =
                        [i \in DOMAIN pages |->
                            [z |-> pages[i].index,
                             width_px |-> pages[i].width_px,
                             height_px |-> pages[i].height_px]]]
    /\ pc' = "pages"
    /\ UNCHANGED <<text, cfg, results, order, assembled, budgeted, dedupIn>>
    /\ UNCHANGED <<codecVars, cliVars, ragVars, embedVars, cursor, auxVars>>

\* one task of into_par_iter().map(|page| self.encode_page(page)): the pool
\* runs the pages in any order, each result lands in the slot of its page
EncodePage(i) ==
    /\ pc = "pages"
    /\ i \in DOMAIN input
    /\ i \notin DOMAIN results
    /\ results' = [j \in DOMAIN results \cup {i} |->
                      IF j = i THEN encode_page(input[i], cfg) ELSE results[j]]
    /\ order' = Append(order, i)
    /\ UNCHANGED <<pc, text, cfg, input, doc, assembled, budgeted, dedupIn>>
    /\ UNCHANGED <<codecVars, cliVars, ragVars, embedVars, cursor, auxVars>>

\* a mutant of processed_pages: the results in the order the workers finished
processed_pages_as_finished(slots, finished) ==
    [i \in DOMAIN finished |-> slots[finished[i]]]

\* collect::<Vec<_>>() of the indexed parallel iterator: the results by page
processed_pages(slots, finished) == [i \in 1..Len(finished) |-> slots[i]]

RECURSIVE extend_dict(_, _)
extend_dict(dict, entries) ==
    IF entries = <<>> THEN dict
    ELSE extend_dict(entry_or_insert(dict, Head(entries)[1], Head(entries)[2]),
                     Tail(entries))

RECURSIVE assemble(_, _)
\* the loop of encode over processed_pages, which it consumes
assemble(d, processed) ==
    IF processed = <<>> THEN d
    ELSE LET page_output == Head(processed)
         IN  assemble([d EXCEPT
                          !.cells = @ \o page_output.cells,
                          !.numguards = @ \o page_output.numguards,
                          !.dict = extend_dict(@, page_output.dict_entries)],
                      Tail(processed))

Assemble ==
    /\ pc = "pages"
    /\ DOMAIN results = DOMAIN input
    /\ doc' = assemble(doc, processed_pages(results, order))
    /\ assembled' = doc'.cells
    /\ results' = <<>>
    /\ pc' = "assembled"
    /\ UNCHANGED <<text, cfg, input, order, budgeted, dedupIn>>
    /\ UNCHANGED <<codecVars, cliVars, ragVars, embedVars, cursor, auxVars>>

ApplyBudget ==
    /\ pc = "assembled"
    /\ doc' = apply_budget(doc, cfg)
    /\ budgeted' = doc'.cells
    /\ pc' = "budgeted"
    /\ UNCHANGED <<text, cfg, input, results, order, assembled, dedupIn>>
    /\ UNCHANGED <<codecVars, cliVars, ragVars, embedVars, cursor, auxVars>>

PostFilters ==
    /\ pc = "budgeted"
    /\ doc' = post_filters(doc, cfg)
    /\ dedupIn' = drop_footers_pass(doc.cells, cfg)
    /\ pc' = "filtered"
    /\ UNCHANGED <<text, cfg, input, results, order, assembled, budgeted>>
    /\ UNCHANGED <<codecVars, cliVars, ragVars, embedVars, cursor, auxVars>>

AnnotateRle ==
    /\ pc = "filtered"
    /\ doc' = [doc EXCEPT !.cells = annotate_rle(@)]
    /\ pc' = "done"
    /\ UNCHANGED encVars
    /\ UNCHANGED <<codecVars, cliVars, ragVars, embedVars, cursor, auxVars>>

Next ==
    \/ BeginEncode
    \/ \E i \in 1..(MaxTokens + 1) : EncodePage(i)
    \/ Assemble
    \/ ApplyBudget
    \/ PostFilters
    \/ AnnotateRle

Spec == Init /\ [][Next]_vars

-----------------------------------------------------------------------------
(* Properties of the encoder                                               *)

SeqToSet(s) == {s[i] : i \in DOMAIN s}

Keys(cells) == {key(cells[i]) : i \in DOMAIN cells}

CodeIds(cells) == {cells[i].code_id : i \in DOMAIN cells}

SortedByKey(cells) ==
    \A i, j \in DOMAIN cells : i < j => ~KeyLess(cells[j], cells[i])

BudgetCut == cfg.budget # <<>> /\ Len(assembled) > cfg.budget[1]

AfterBudget == pc \in {"budgeted", "filtered", "done"}

\* the cells of `before` that are not among `after`, by position
Dropped(before, after) == {c \in SeqToSet(before) : key(c) \notin Keys(after)}

\* C2 as claimed: after an encode whose budget B was exceeded, every cell
\* kept in the encoded document has importance greater than or equal to
\* that of every cell that was dropped.
C2_KeptOutrankDropped ==
    (pc = "done" /\ BudgetCut) =>
        \A k \in SeqToSet(doc.cells), d \in Dropped(assembled, doc.cells) :
            k.importance >= d.importance

\* C2 amended: when the budget B is exceeded, the budget stage keeps exactly
\* B of the assembled cells, in (z,y,x) order, and every cell it keeps
\* outranks every cell it drops: higher importance, or equal importance and
\* a smaller (z,y,x).
C2_BudgetStageKeepsMostImportant ==
    (AfterBudget /\ BudgetCut) =>
        /\ Len(budgeted) = cfg.budget[1]
        /\ SeqToSet(budgeted) \subseteq SeqToSet(assembled)
        /\ SortedByKey(budgeted)
        /\ \A k \in SeqToSet(budgeted), d \in Dropped(assembled, budgeted) :
              \/ k.importance > d.importance
              \/ k.importance = d.importance /\ KeyLess(k, d)

\* C2 witness: the budget cut between two cells of equal importance
C2_Witness ==
    /\ pc = "budgeted" /\ BudgetCut /\ cfg.budget[1] > 0
    /\ \E k \in SeqToSet(budgeted), d \in Dropped(assembled, budgeted) :
          k.importance = d.importance
    /\ \E k \in SeqToSet(budgeted), d \in Dropped(assembled, budgeted) :
          k.importance > d.importance

\* C3: with a budget B set (B = 0 included), whatever the footer-drop and
\* dedup-window settings, the encoded document holds at most B cells.
C3_AtMostBudgetCells ==
    (pc = "done" /\ cfg.budget # <<>>) => Len(doc.cells) <= cfg.budget[1]

\* C3 witness: a budget that was exceeded and is exactly filled, with the
\* footer drop and the dedup window on
C3_Witness ==
    /\ pc = "done" /\ BudgetCut
    /\ cfg.drop_footers /\ cfg.dedup_window_pages > 0
    /\ cfg.budget[1] > 0 /\ Len(doc.cells) = cfg.budget[1]

\* C4 as claimed: every NumGuard a page worker emits for a normalized line L
\* carries the SHA-1 of the digit-only substring of L, the digits of the
\* payload of the cell at the guard's position.
C4_GuardHashesLineDigits ==
    pc = "pages" =>
        \A p \in DOMAIN results :
            \A g \in SeqToSet(results[p].numguards) :
                \A i \in DOMAIN results[p].cells :
                    (results[p].cells[i].y = g.y) =>
                        g.sha1 = sha1_from_digits(
                            Filter(results[p].dict_entries[i][2], is_ascii_digit))

\* C7: after encode the dictionary's keys are exactly the code_ids of the
\* document's cells.
C7_DictMatchesCells ==
    pc = "done" => DictKeys(doc.dict) = CodeIds(doc.cells)

\* C7 witness: an encode that dropped every cell of some payload and kept
\* others
C7_Witness ==
    /\ pc = "done"
    /\ doc.cells # <<>>
    /\ CodeIds(doc.cells) # CodeIds(assembled)

\* the positions of dedupIn whose cell is in the document
KeptByDedup == {i \in DOMAIN dedupIn : key(dedupIn[i]) \in Keys(doc.cells)}

\* C8: with dedup_window W > 0, a cell is kept if and only if no cell kept
\* before it, in the order the pass reads them, has the same code_id and a
\* page at most W away.
C8_DedupKeepsFirstInWindow ==
    (pc \in {"filtered", "done"} /\ cfg.dedup_window_pages > 0) =>
        /\ Keys(doc.cells) \subseteq Keys(dedupIn)
        /\ \A i \in DOMAIN dedupIn :
              i \in KeptByDedup <=>
                  ~\E j \in KeptByDedup :
                      /\ j < i
                      /\ dedupIn[j].code_id = dedupIn[i].code_id
                      /\ abs_diff(dedupIn[i].z, dedupIn[j].z)
                            <= cfg.dedup_window_pages

\* C8 witness: the dedup pass removed a cell and kept another
C8_Witness ==
    /\ pc = "done" /\ cfg.dedup_window_pages > 0
    /\ KeptByDedup # {}
    /\ KeptByDedup # DOMAIN dedupIn

RunStart(cells, i) == i = 1 \/ cells[i - 1].code_id # cells[i].code_id

\* the cells after cells[i] that belong to its run of equal code_id
RunAfter(cells, i) ==
    {j \in DOMAIN cells :
        j > i /\ \A m \in i..j : cells[m].code_id = cells[i].code_id}

\* C9: in the encoded document, sorted by (z,y,x), the first cell of every
\* maximal run of equal code_id has rle = the number of cells that follow
\* it in the run, and every other cell has rle = 0.
C9_RleMarksRuns ==
    pc = "done" =>
        /\ SortedByKey(doc.cells)
        /\ \A i \in DOMAIN doc.cells :
              doc.cells[i].rle =
                  IF RunStart(doc.cells, i)
                  THEN Cardinality(RunAfter(doc.cells, i))
                  ELSE 0

\* C9 witness: a run of three cells beside a single cell
C9_Witness ==
    /\ pc = "done"
    /\ \E i \in DOMAIN doc.cells : doc.cells[i].rle = 2
    /\ \E i \in DOMAIN doc.cells :
          /\ RunStart(doc.cells, i)
          /\ RunAfter(doc.cells, i) = {}

\* encode with the pages processed one at a time in page order
encode_in_page_order(pages, config) ==
    LET d0 == [NewDocument EXCEPT !.pages =
                  [i \in DOMAIN pages |->
                      [z |-> pages[i].index, width_px |-> pages[i].width_px,
                       height_px |-> pages[i].height_px]]]
        outs == [i \in DOMAIN pages |-> encode_page(pages[i], config)]
        d1 == post_filters(apply_budget(assemble(d0, outs), config), config)
    IN  [d1 EXCEPT !.cells = annotate_rle(@)]

\* C10: whatever order the page workers finish in, encode returns the
\* Document (cells, dictionary order, numguards) that processing the pages
\* one at a time in page order returns.
C10_EncodeIsScheduleIndependent ==
    pc = "done" => doc = encode_in_page_order(input, cfg)

\* C10 witness: an encode whose last page finished first, the pages holding
\* different payloads
C10_Witness ==
    /\ pc = "done"
    /\ Len(order) >= 2
    /\ order[1] = Len(order)
    /\ Len(doc.dict) >= 2
    /\ \E i, j \in DOMAIN doc.cells : doc.cells[i].z # doc.cells[j].z

-----------------------------------------------------------------------------
(* document.rs: the binary codec, to_proto / from_proto                    *)

\* The model's machine words are WordBits wide where Rust's are 32: u32 is
\* 0 .. 2^WordBits - 1 and i32 is -2^(WordBits-1) .. 2^(WordBits-1) - 1.
\* i64 arithmetic on such values never overflows and is plain arithmetic.
WordBits == 3

MaxCodecCells == 2

WordModulus == 2 ^ WordBits

U32Max == WordModulus - 1

I32Min == 0 - (WordModulus \div 2)

I32Max == (WordModulus \div 2) - 1

\* `v as u32` and `v as i32` of an i64 v: the low bits, read unsigned / signed
as_u32(v) == v % WordModulus

as_i32(v) == ((v - I32Min) % WordModulus) + I32Min

\* `v as u8` of a u32
as_u8(v) == v % 256

CellTypes == <<"Text", "Table", "Figure", "Footer", "Header">>

\* proto::CellType::from(cell_type) as i32: Text = 0 .. Header = 4
cell_type_to_i32(t) == (CHOOSE i \in DOMAIN CellTypes : CellTypes[i] = t) - 1

\* proto::CellType::try_from(v).map(CellType::from).unwrap_or(CellType::Text)
cell_type_from_i32(v) ==
    IF v >= 0 /\ v < Len(CellTypes) THEN CellTypes[v + 1] ELSE "Text"

\* code_id.to_vec() / sha1.to_vec(): the bytes of a hash and their number
bytes_of(hash, len) == [len |-> len, bytes |-> hash]

RECURSIVE delta_cells(_, _)
\* the map closure of to_proto over the ordered cells; prev = (z, x, y)
delta_cells(cells, prev) ==
    IF cells = <<>> THEN <<>>
    ELSE LET cell == Head(cells)
         IN  << [dz |-> as_i32(cell.z - prev[1]),
                 dx |-> as_i32(cell.x - prev[2]),
                 dy |-> as_i32(cell.y - prev[3]),
                 w |-> cell.w, h |-> cell.h,
                 code_id |-> bytes_of(cell.code_id, 32),
                 rle |-> cell.rle,
                 type |-> cell_type_to_i32(cell.cell_type),
                 importance_q |-> cell.importance] >>
             \o delta_cells(Tail(cells), <<cell.z, cell.x, cell.y>>)

to_proto(d) ==
    [header |-> <<d.header>>,
     pages |-> d.pages,
     cells |-> delta_cells(ordered_cells(d), <<0, 0, 0>>),
     dict |-> [i \in DOMAIN d.dict |->
                  [code_id |-> bytes_of(d.dict[i][1], 32),
                   payload_utf8 |-> d.dict[i][2]]],
     numguards |-> [i \in DOMAIN d.numguards |->
                  [z |-> d.numguards[i].z, x |-> d.numguards[i].x,
                   y |-> d.numguards[i].y, units |-> d.numguards[i].units,
                   sha1 |-> bytes_of(d.numguards[i].sha1, 20)]]]

\* a mutant of undelta_cells: each delta is read as an absolute position
undelta_cells_absolute(cells, prev) ==
    [i \in DOMAIN cells |->
        [z |-> as_u32(cells[i].dz), x |-> as_i32(cells[i].dx),
         y |-> as_i32(cells[i].dy), w |-> cells[i].w, h |-> cells[i].h,
         code_id |-> cells[i].code_id.bytes, rle |-> cells[i].rle,
         cell_type |-> cell_type_from_i32(cells[i].type),
         importance |-> as_u8(cells[i].importance_q)]]

RECURSIVE undelta_cells(_, _)
\* the loop of from_proto over doc.cells; prev is the running (z, x, y)
undelta_cells(cells, prev) ==
    IF cells = <<>> THEN <<>>
    ELSE LET cell == Head(cells)
             now == <<prev[1] + cell.dz, prev[2] + cell.dx, prev[3] + cell.dy>>
         IN  << [z |-> as_u32(now[1]), x |-> as_i32(now[2]), y |-> as_i32(now[3]),
                 w |-> cell.w, h |-> cell.h,
                 code_id |-> cell.code_id.bytes, rle |-> cell.rle,
                 cell_type |-> cell_type_from_i32(cell.type),
                 importance |-> as_u8(cell.importance_q)] >>
             \o undelta_cells(Tail(cells), now)

RECURSIVE insert_all(_, _)
insert_all(dict, entries) ==
    IF entries = <<>> THEN dict
    ELSE insert_all(dict_insert(dict, Head(entries).code_id.bytes,
                                Head(entries).payload_utf8),
                    Tail(entries))

\* copy_from_slice panics unless the slice has the length of the array
SlicesFit(msg) ==
    /\ \A i \in DOMAIN msg.cells : msg.cells[i].code_id.len = 32
    /\ \A i \in DOMAIN msg.dict : msg.dict[i].code_id.len = 32
    /\ \A i \in DOMAIN msg.numguards : msg.numguards[i].sha1.len = 20

\* from_proto: Ok(Document), or the panic of copy_from_slice
from_proto(msg) ==
    IF ~SlicesFit(msg) THEN [kind |-> "panic"]
    ELSE [kind |-> "ok",
          doc |-> [header |-> IF msg.header = <<>> THEN NewDocument.header
                              ELSE msg.header[1],
                   pages |-> msg.pages,
                   cells |-> undelta_cells(msg.cells, <<0, 0, 0>>),
                   dict |-> insert_all(<<>>, msg.dict),
                   numguards |-> [i \in DOMAIN msg.numguards |->
                       [z |-> msg.numguards[i].z, x |-> msg.numguards[i].x,
                        y |-> msg.numguards[i].y,
                        units |-> msg.numguards[i].units,
                        sha1 |-> msg.numguards[i].sha1.bytes]]]]

\* The documents the codec is run on: cells at the ends of the u32 and i32
\* ranges, in any order, beside a dictionary, pages and numguards.
PayloadA == <<"a", " ", "1">>

PayloadB == <<"b">>

CodecCells ==
    {[z |-> z, x |-> x, y |-> y, w |-> 5, h |-> 2,
      code_id |-> hash_payload(p), rle |-> a[1], cell_type |-> a[2],
      importance |-> a[3]] :
        z \in {0, U32Max}, x \in {I32Min, I32Max}, y \in {I32Min, I32Max},
        p \in {PayloadA, PayloadB},
        a \in {<<0, "Text", 0>>, <<1, "Header", 255>>}}

CodecCellSeqs == UNION {[1..n -> CodecCells] : n \in 0..MaxCodecCells}

CodecRest ==
    { [pages |-> <<>>, dict |-> <<>>, numguards |-> <<>>],
      [pages |-> <<[z |-> 0, width_px |-> 5, height_px |-> 7]>>,
       dict |-> << <<hash_payload(PayloadA), PayloadA>>,
                   <<hash_payload(PayloadB), PayloadB>> >>,
       numguards |-> <<[z |-> 0, x |-> 0, y |-> U32Max, units |-> <<>>,
                        sha1 |-> sha1_from_digits(<<"1">>)]>>],
      [pages |-> <<[z |-> 0, width_px |-> 5, height_px |-> 7],
                   [z |-> U32Max, width_px |-> 5, height_px |-> 7]>>,
       dict |-> << <<hash_payload(PayloadB), PayloadB>>,
                   <<hash_payload(PayloadA), PayloadA>> >>,
       numguards |-> <<[z |-> U32Max, x |-> 0, y |-> 0, units |-> <<"%">>,
                        sha1 |-> sha1_from_digits(<<"1">>)],
                       [z |-> 0, x |-> U32Max, y |-> 0, units |-> <<>>,
                        sha1 |-> sha1_from_digits(<<"2">>)]>>] }

CodecInit ==
    /\ pc = "codec_start"
    /\ \E cells \in CodecCellSeqs, rest \in CodecRest :
          doc = [header |-> NewDocument.header, pages |-> rest.pages,
                 cells |-> cells, dict |-> rest.dict,
                 numguards |-> rest.numguards]
    /\ IdleCodec
    /\ IdleEncoder
    /\ IdleCli
    /\ IdleRag /\ IdleEmbed /\ IdleLayout /\ IdleAux

\* to_bytes: to_proto, then the message encoding and compression, which the
\* model takes to be lossless
ToBytes ==
    /\ pc = "codec_start"
    /\ wire' = <<to_proto(doc)>>
    /\ pc' = "encoded"
    /\ UNCHANGED <<doc, decoded, encVars, cliVars, ragVars, embedVars, cursor, auxVars>>

\* from_bytes: decompression and message decoding, then from_proto
FromBytes ==
    /\ pc = "encoded"
    /\ decoded' = <<from_proto(wire[1])>>
    /\ pc' = "decoded"
    /\ UNCHANGED <<doc, wire, encVars, cliVars, ragVars, embedVars, cursor, auxVars>>

CodecNext == ToBytes \/ FromBytes

SpecCodec == CodecInit /\ [][CodecNext]_vars

\* C1: for every Document d, from_bytes(to_bytes(d)) succeeds and yields d:
\* the same cells in (z,y,x) order, the same dictionary entries in the same
\* order, the same pages and the same numguards.
C1_RoundTrip ==
    pc = "decoded" =>
        /\ decoded[1].kind = "ok"
        /\ decoded[1].doc.cells = ordered_cells(doc)
        /\ SortedByKey(decoded[1].doc.cells)
        /\ decoded[1].doc.dict = doc.dict
        /\ decoded[1].doc.pages = doc.pages
        /\ decoded[1].doc.numguards = doc.numguards
        /\ decoded[1].doc.header = doc.header

\* C1 witness: a round trip of two cells stored out of order whose deltas
\* wrap around the word, with a two-entry dictionary
C1_Witness ==
    /\ pc = "decoded"
    /\ Len(doc.cells) = 2
    /\ doc.cells # ordered_cells(doc)
    /\ doc.cells[1].z = U32Max /\ doc.cells[2].z = 0
    /\ doc.cells[1].x = I32Min /\ doc.cells[2].x = I32Max
    /\ wire[1].cells[2].dz < 0
    /\ Len(doc.dict) = 2
    /\ decoded[1].kind = "ok"

-----------------------------------------------------------------------------
(* document.rs: numguard verification; cli/main.rs: encode and decode      *)

MaxCliCells == 2

MaxCliGuards == 2

\* c.x.max(0) as u32
clamp_u32(v) == IF v < 0 THEN 0 ELSE v

CellAt(c, guard) ==
    c.z = guard.z /\ clamp_u32(c.x) = guard.x /\ clamp_u32(c.y) = guard.y

\* self.cells.iter().find(..): the first cell at the guard's position
find_cell(d, guard) ==
    LET hits == {i \in DOMAIN d.cells : CellAt(d.cells[i], guard)}
    IN  IF hits = {} THEN <<>> ELSE <<d.cells[SetMin(hits)]>>

\* the whitelist branch: the guard's units are named and not allowed
unit_rejected(guard, whitelist) ==
    /\ whitelist # <<>>
    /\ guard.units # <<>>
    /\ to_lowercase(guard.units) \notin {to_lowercase(u) : u \in whitelist[1]}

Alert(guard, observed, issue) ==
    [guard |-> guard, observed |-> observed, issue |-> issue]

\* the body of the loop over self.numguards: the alerts one guard adds
guard_alerts(d, guard, whitelist) ==
    IF unit_rejected(guard, whitelist)
    THEN <<Alert(guard, <<>>, "UnitNotAllowed")>>
    ELSE LET cell == find_cell(d, guard)
             payload == IF cell = <<>> THEN <<>>
                        ELSE payload_for(d, cell[1].code_id)
             actual == IF payload = <<>> THEN <<>>
                       ELSE hash_digits_from_payload(payload[1])
         IN  IF cell # <<>> /\ payload # <<>>
             THEN IF actual # <<>>
                  THEN IF actual[1] # guard.sha1
                       THEN <<Alert(guard, actual, "HashMismatch")>>
                       ELSE <<>>
                  ELSE <<Alert(guard, <<>>, "MissingPayload")>>
             ELSE <<Alert(guard, <<>>, "MissingCell")>>

RECURSIVE mismatches_from(_, _, _)
mismatches_from(d, guards, whitelist) ==
    IF guards = <<>> THEN <<>>
    ELSE guard_alerts(d, Head(guards), whitelist)
         \o mismatches_from(d, Tail(guards), whitelist)

numguard_mismatches_with_units(d, whitelist) ==
    mismatches_from(d, d.numguards, whitelist)

\* a mutant of strict_numguard_failed: any alert fails the command
strict_numguard_failed_on_any_alert(strict, found) == found # <<>>

\* `if strict_numguard && !alerts.is_empty() { return Err(..) }`
strict_numguard_failed(strict, found) == strict /\ found # <<>>

\* The documents the commands verify: up to MaxCliCells cells on two
\* positions, a dictionary holding some of the payloads, and up to
\* MaxCliGuards guards on the first position.
CliCells ==
    {[z |-> 0, x |-> 64, y |-> y, w |-> 896, h |-> 24,
      code_id |-> hash_payload(p), rle |-> 0, cell_type |-> "Text",
      importance |-> 135] : y \in {64, 94}, p \in {PayloadA, PayloadB}}

CliGuards ==
    {[z |-> 0, x |-> 64, y |-> 64, units |-> g[1],
      sha1 |-> sha1_from_digits(g[2])] :
        g \in {<< <<>>, <<"1">> >>, << <<"%">>, <<"1">> >>, << <<>>, <<"2">> >>}}

CliDicts ==
    { <<>>,
      << <<hash_payload(PayloadA), PayloadA>> >>,
      << <<hash_payload(PayloadB), PayloadB>> >>,
      << <<hash_payload(PayloadA), PayloadA>>,
         <<hash_payload(PayloadB), PayloadB>> >> }

CliDocs ==
    {[header |-> NewDocument.header,
      pages |-> <<[z |-> 0, width_px |-> 1024, height_px |-> 1400]>>,
      cells |-> cells, dict |-> dict, numguards |-> guards] :
        cells \in UNION {[1..n -> CliCells] : n \in 0..MaxCliCells},
        dict \in CliDicts,
        guards \in UNION {[1..n -> CliGuards] : n \in 0..MaxCliGuards}}

\* --strict-numguard, --numguard-units and --json-out of one invocation
Commands ==
    {[name |-> n, strict_numguard |-> s, numguard_units |-> u, json_out |-> j] :
        n \in {"encode", "decode"}, s \in BOOLEAN,
        u \in {<<>>, <<{<<"k", "g">>}>>}, j \in BOOLEAN}

\* encode verifies the document the encoder has just built, whose dictionary
\* holds exactly the payloads of its cells; decode verifies whatever the
\* input file holds.
CliInit ==
    /\ pc = "cli_start"
    /\ \E c \in Commands : cmd = <<c>>
    /\ doc \in CliDocs
    /\ cmd[1].name = "encode" => DictKeys(doc.dict) = {c.code_id : c \in Range(doc.cells)}
    /\ alerts = <<>>
    /\ outputs = {}
    /\ status = "running"
    /\ IdleEncoder
    /\ IdleCodec
    /\ IdleRag /\ IdleEmbed /\ IdleLayout /\ IdleAux

\* encode_path / load_document and load_unit_whitelist, each ended by `?`
CliLoad ==
    /\ pc = "cli_start"
    /\ \/ /\ pc' = IF cmd[1].name = "decode" THEN "cli_render" ELSE "cli_verify"
          /\ UNCHANGED status
       \/ /\ pc' = "cli_exit"
          /\ status' = "err_io"
    /\ UNCHANGED <<doc, cmd, alerts, outputs, encVars, codecVars, ragVars, embedVars, cursor, auxVars>>

\* decode: render_selection, then fs::write(text_out) or println!
CliRender ==
    /\ pc = "cli_render"
    /\ outputs' = outputs \cup {"rendered_text"}
    /\ pc' = "cli_verify"
    /\ UNCHANGED <<doc, cmd, alerts, status, encVars, codecVars, ragVars, embedVars, cursor, auxVars>>

\* numguard_mismatches_with_units and the warning on stderr
CliVerify ==
    /\ pc = "cli_verify"
    /\ alerts' = numguard_mismatches_with_units(doc, cmd[1].numguard_units)
    /\ outputs' = IF alerts' # <<>> THEN outputs \cup {"stderr_warning"}
                  ELSE outputs
    /\ pc' = "cli_strict"
    /\ UNCHANGED <<doc, cmd, status, encVars, codecVars, ragVars, embedVars, cursor, auxVars>>

CliStrictCheck ==
    /\ pc = "cli_strict"
    /\ IF strict_numguard_failed(cmd[1].strict_numguard, alerts)
       THEN pc' = "cli_exit" /\ status' = "err_strict"
       ELSE pc' = "cli_save" /\ UNCHANGED status
    /\ UNCHANGED <<doc, cmd, alerts, outputs, encVars, codecVars, ragVars, embedVars, cursor, auxVars>>

\* encode: save_bin(out)?, then save_json(json_out)?;
\* decode: save_json(json_out)?
CliSave ==
    /\ pc = "cli_save"
    /\ pc' = "cli_exit"
    /\ LET bin == IF cmd[1].name = "encode" THEN {"out_bin"} ELSE {}
           json == IF cmd[1].json_out THEN {"json_out"} ELSE {}
       IN  \/ outputs' = outputs \cup bin \cup json /\ status' = "ok"
           \/ outputs' = outputs /\ status' = "err_io"
    /\ UNCHANGED <<doc, cmd, alerts, encVars, codecVars, ragVars, embedVars, cursor, auxVars>>

CliNext == CliLoad \/ CliRender \/ CliVerify \/ CliStrictCheck \/ CliSave

SpecCli == CliInit /\ [][CliNext]_vars

HasAlert(guard, issue) ==
    \E i \in DOMAIN alerts : alerts[i].guard = guard /\ alerts[i].issue = issue

\* C5: for each guard the whitelist lets through, MissingCell is reported
\* exactly when no cell is at the guard's (z, x, y), and MissingPayload
\* exactly when a cell is there but its code_id has no dictionary entry.
C5_MissingCellAndPayloadAsStated ==
    (pc = "cli_strict") =>
        \A i \in DOMAIN doc.numguards :
            LET guard == doc.numguards[i]
                cell == find_cell(doc, guard)
            IN  ~unit_rejected(guard, cmd[1].numguard_units) =>
                  /\ HasAlert(guard, "MissingCell") <=> (cell = <<>>)
                  /\ HasAlert(guard, "MissingPayload") <=>
                        (cell # <<>> /\ payload_for(doc, cell[1].code_id) = <<>>)

\* C6: a finished encode or decode command has failed on the strict-numguard
\* check exactly when strict mode was set and verification left alerts;
\* without strict mode the alerts only put a warning on stderr.
C6_StrictFailsIffAlerts ==
    /\ (pc = "cli_exit") =>
          (status = "err_strict" <=> (cmd[1].strict_numguard /\ alerts # <<>>))
    /\ (pc = "cli_exit" /\ ~cmd[1].strict_numguard /\ alerts # <<>>) =>
          (status \in {"ok", "err_io"} /\ "stderr_warning" \in outputs)
    /\ (pc = "cli_exit" /\ status # "err_io" /\ cmd[1].strict_numguard) =>
          (status = "ok" <=> alerts = <<>>)

\* C6 witness: a strict decode that failed on its alerts
C6_Witness ==
    /\ pc = "cli_exit"
    /\ cmd[1].name = "decode"
    /\ cmd[1].strict_numguard
    /\ alerts # <<>>
    /\ status = "err_strict"

-----------------------------------------------------------------------------
(* rag/sensitivity.rs, rag/store.rs, rag/pipeline.rs: the retrieval store  *)

MaxRows == 2

MaxTopK == 2

\* LEVELS, lowest first
LEVELS ==
    << <<"p", "u", "b", "l", "i", "c">>,
       <<"i", "n", "t", "e", "r", "n", "a", "l">>,
       <<"c", "o", "n", "f", "i", "d", "e", "n", "t", "i", "a", "l">>,
       <<"r", "e", "s", "t", "r", "i", "c", "t", "e", "d">> >>

\* a mutant of sensitivity_rank: the label is compared as it is written
sensitivity_rank_as_written(value) ==
    IF \E i \in DOMAIN LEVELS : LEVELS[i] = value
    THEN (CHOOSE i \in DOMAIN LEVELS : LEVELS[i] = value) - 1
    ELSE 0

\* RANKS.get(value.trim().to_lowercase()).unwrap_or(&0)
sensitivity_rank(value) ==
    LET lower == to_lowercase(trim(value))
    IN  IF \E i \in DOMAIN LEVELS : LEVELS[i] = lower
        THEN (CHOOSE i \in DOMAIN LEVELS : LEVELS[i] = lower) - 1
        ELSE 0

allowed(level, threshold) ==
    sensitivity_rank(level) <= sensitivity_rank(threshold)

\* The labels a row may carry: levels, some written in capitals or padded,
\* and one that is no level at all; and the thresholds of a query.
RowLabels ==
    { LEVELS[1],
      <<"R", "E", "S", "T", "R", "I", "C", "T", "E", "D">>,
      <<" ", "I", "n", "t", "e", "r", "n", "a", "l", " ">>,
      <<"s", "e", "c", "r", "e", "t">> }

ThresholdLabels ==
    { LEVELS[1], LEVELS[2], LEVELS[3],
      <<"R", "E", "S", "T", "R", "I", "C", "T", "E", "D">>,
      <<"s", "e", "c", "r", "e", "t">> }

\* A cosine score is kept exact, as the dot product and the product of the
\* two squared norms: the score is dot / sqrt(norms), and 0.0 when a norm is 0.
dot_product(a, b) ==
    LET n == Min(Len(a), Len(b))
        RECURSIVE sum(_)
        sum(i) == IF i > n THEN 0 ELSE a[i] * b[i] + sum(i + 1)
    IN  sum(1)

cosine_similarity(a, b) ==
    LET n == Min(Len(a), Len(b))
        a_norm == dot_product(SubSeq(a, 1, n), SubSeq(a, 1, n))
        b_norm == dot_product(SubSeq(b, 1, n), SubSeq(b, 1, n))
    IN  IF a_norm = 0 \/ b_norm = 0 THEN [dot |-> 0, norms |-> 1]
        ELSE [dot |-> dot_product(a, b), norms |-> a_norm * b_norm]

\* s < t for two scores: x |-> sign(x) * x^2 is monotone
signed_square(x) == IF x < 0 THEN 0 - x * x ELSE x * x

score_less(s, t) ==
    signed_square(s.dot) * t.norms < signed_square(t.dot) * s.norms

\* a mutant of by_score_descending: the lowest score first
by_score_ascending(a, b) == score_less(a.score, b.score)

\* the comparator of hits.sort_by: b.score.partial_cmp(&a.score)
by_score_descending(a, b) == score_less(b.score, a.score)

\* a mutant of policy_drops: no row is held back
policy_drops_nothing(row, filters) == FALSE

\* `filters.policy == RagPolicy::External && text_encrypted.is_some()`
policy_drops(row, filters) ==
    filters.policy = "External" /\ row.text_encrypted # <<>>

\* the rows the SELECT returns, then the loop body of search_cells
scored_cell(row, q) ==
    [cell_id |-> row.id, sensitivity |-> row.sensitivity, text |-> row.text,
     text_encrypted |-> row.text_encrypted,
     score |-> cosine_similarity(q.embedding, row.embedding)]

RowPasses(row, q) ==
    /\ row.collection = q.collection
    /\ allowed(row.sensitivity, q.sensitivity_threshold)
    /\ ~policy_drops(row, q)

search_cells(table, q) ==
    LET passing == SelectSeq(table, LAMBDA row : RowPasses(row, q))
        scored == [i \in DOMAIN passing |-> scored_cell(passing[i], q)]
    IN  truncate(stable_sort(scored, by_score_descending), q.top_k)

\* pipeline.rs resolve_cell_text: the text a hit puts into the context; a
\* cipher is the record of what it encrypts and decrypt_text opens it
resolve_cell_text(cell, identity) ==
    IF cell.text # <<>> THEN cell.text
    ELSE IF cell.text_encrypted # <<>> /\ identity
         THEN <<cell.text_encrypted[1].age>>
         ELSE <<>>

\* the loop of execute_rag_query over the hits: the texts of used_cells
used_cells(found, identity) ==
    LET texts == [i \in DOMAIN found |-> resolve_cell_text(found[i], identity)]
        kept == SelectSeq(texts, LAMBDA t : t # <<>>)
    IN  [i \in DOMAIN kept |-> kept[i][1]]

\* CellInsert as the index command builds it: plain text, or a cipher when a
\* recipient is given. Every label comes plain and sealed; the plain public
\* cell comes with every embedding; one cell is of another collection.
CellInsert(c, s, t, e) ==
    [collection |-> c, sensitivity |-> s, text |-> t[1],
     text_encrypted |-> t[2], embedding |-> e]

PlainText == << <<"plain">>, <<>> >>

SealedText == << <<>>, <<[age |-> "sealed"]>> >>

CellInserts ==
    {CellInsert("main", s, PlainText, <<1, 1>>) : s \in RowLabels}
    \cup {CellInsert("main", s, SealedText, <<1, 0>>) : s \in RowLabels}
    \cup {CellInsert("main", LEVELS[1], PlainText, e) : e \in {<<1, 0>>, <<0, 0>>}}
    \cup {CellInsert("other", LEVELS[1], PlainText, <<1, 0>>)}

\* a table of up to MaxRows rows; AUTOINCREMENT numbers them from 1
with_ids(cells, first) ==
    [i \in DOMAIN cells |->
        [id |-> first + i - 1, collection |-> cells[i].collection,
         sensitivity |-> cells[i].sensitivity, text |-> cells[i].text,
         text_encrypted |-> cells[i].text_encrypted,
         embedding |-> cells[i].embedding]]

Tables ==
    {with_ids(cells, 1) : cells \in UNION {[1..n -> CellInserts] : n \in 0..MaxRows}}

Queries ==
    {[collection |-> "main", embedding |-> e, top_k |-> k,
      sensitivity_threshold |-> t, policy |-> p, identity |-> TRUE] :
        e \in { <<1, 0>> }, k \in 0..MaxTopK, t \in ThresholdLabels,
        p \in {"External", "Internal"}}

SearchInit ==
    /\ pc = "search_start"
    /\ rows \in Tables
    /\ \E q \in Queries : query = <<q>>
    /\ tx = <<>>
    /\ search = <<>>
    /\ doc = NewDocument
    /\ IdleEncoder /\ IdleCodec /\ IdleCli /\ IdleEmbed /\ IdleLayout /\ IdleAux

\* search_cells on a fresh connection, then the context of execute_rag_query
Search ==
    /\ pc = "search_start"
    /\ LET found == search_cells(rows, query[1])
       IN  search' = <<[seen |-> {rows[i].id : i \in DOMAIN rows},
                        pending |-> 0,
                        result |-> found,
                        used |-> used_cells(found, query[1].identity)]>>
    /\ pc' = "search_done"
    /\ UNCHANGED <<doc, rows, tx, query, encVars, codecVars, cliVars,
                   embedVars, cursor, auxVars>>

SearchNext == Search

SpecSearch == SearchInit /\ [][SearchNext]_vars


\* the level a label names: its place in public < internal < confidential <
\* restricted once trimmed and lower-cased, or none
LevelOf(label) ==
    {i \in DOMAIN LEVELS : LEVELS[i] = to_lowercase(trim(label))}

\* a threshold that names no level lets through what `public` lets through
ThresholdLevel(label) == IF LevelOf(label) = {} THEN {1} ELSE LevelOf(label)

\* C11: search_cells returns no cell whose sensitivity level exceeds the
\* threshold's level in the ordering public < internal < confidential <
\* restricted.
C11_NoCellAboveThreshold ==
    pc = "search_done" =>
        \A i \in DOMAIN search[1].result :
            \A l \in LevelOf(search[1].result[i].sensitivity),
               t \in ThresholdLevel(query[1].sensitivity_threshold) : l <= t

\* C11 witness: a search that held back a restricted row written in capitals
\* and returned a row at the threshold's own level
C11_Witness ==
    /\ pc = "search_done"
    /\ \E i \in DOMAIN rows :
          /\ LevelOf(rows[i].sensitivity) = {4}
          /\ rows[i].sensitivity # LEVELS[4]
          /\ rows[i].id \notin {search[1].result[j].cell_id : j \in DOMAIN search[1].result}
    /\ \E j \in DOMAIN search[1].result :
          /\ LevelOf(search[1].result[j].sensitivity) = {2}
          /\ LevelOf(query[1].sensitivity_threshold) = {2}

\* C12: under policy External no returned row has encrypted text, and no
\* text put into the context was decrypted from a cipher.
C12_ExternalSeesNoCipher ==
    (pc = "search_done" /\ query[1].policy = "External") =>
        /\ \A i \in DOMAIN search[1].result :
              search[1].result[i].text_encrypted = <<>>
        /\ \A i \in DOMAIN search[1].used : search[1].used[i] # "sealed"

\* C12 witness: an External search over a table holding an encrypted row the
\* threshold allows, beside a plain row that is returned
C12_Witness ==
    /\ pc = "search_done" /\ query[1].policy = "External"
    /\ \E i \in DOMAIN rows :
          /\ rows[i].text_encrypted # <<>>
          /\ rows[i].collection = query[1].collection
          /\ allowed(rows[i].sensitivity, query[1].sensitivity_threshold)
    /\ search[1].result # <<>>

\* the rows of the table that pass the collection, the sensitivity and the
\* policy filters
PassingIds ==
    {rows[i].id : i \in {j \in DOMAIN rows :
        /\ rows[j].collection = query[1].collection
        /\ sensitivity_rank(rows[j].sensitivity)
              <= sensitivity_rank(query[1].sensitivity_threshold)
        /\ ~(query[1].policy = "External" /\ rows[j].text_encrypted # <<>>)}}

ReturnedIds == {search[1].result[i].cell_id : i \in DOMAIN search[1].result}

ScoreOfRow(id) ==
    cosine_similarity(query[1].embedding,
                      rows[CHOOSE i \in DOMAIN rows : rows[i].id = id].embedding)

\* C13: search_cells returns min(top_k, passing) of the passing rows, each
\* once, in descending score order, and every returned row scores at least
\* as high as every passing row that was not returned.
C13_TopKByScore ==
    pc = "search_done" =>
        LET result == search[1].result
        IN  /\ ReturnedIds \subseteq PassingIds
            /\ Cardinality(ReturnedIds) = Len(result)
            /\ Len(result) = Min(query[1].top_k, Cardinality(PassingIds))
            /\ \A i \in DOMAIN result : result[i].score = ScoreOfRow(result[i].cell_id)
            /\ \A i, j \in DOMAIN result :
                  i < j => ~score_less(result[i].score, result[j].score)
            /\ \A r \in ReturnedIds, p \in PassingIds \ ReturnedIds :
                  ~score_less(ScoreOfRow(r), ScoreOfRow(p))

\* C13 witness: two passing rows of different scores, stored lowest first,
\* of which top_k = 1 returns one
C13_Witness ==
    /\ pc = "search_done"
    /\ query[1].top_k = 1
    /\ Cardinality(PassingIds) = 2
    /\ \E i, j \in DOMAIN rows :
          /\ i < j
          /\ {rows[i].id, rows[j].id} = PassingIds
          /\ score_less(ScoreOfRow(rows[i].id), ScoreOfRow(rows[j].id))
    /\ Len(search[1].result) = 1


-----------------------------------------------------------------------------
(* rag/store.rs: add_cells, one transaction per batch                      *)

MaxBatch == 2

\* a mutant of tx_insert: the INSERT is committed on its own
tx_insert_autocommit(table, t) ==
    LET row == with_ids(<<Head(t.rest)>>, Len(table) + 1)
    IN  [rows |-> table \o row,
         tx |-> [t EXCEPT !.inserted = @ \o row, !.rest = Tail(@)]]

\* tx.execute("INSERT INTO cells ..."): the row is written inside the open
\* transaction, where no other connection sees it; AUTOINCREMENT numbers it
tx_insert(table, t) ==
    LET row == with_ids(<<Head(t.rest)>>, Len(table) + Len(t.inserted) + 1)
    IN  [rows |-> table,
         tx |-> [t EXCEPT !.inserted = @ \o row, !.rest = Tail(@)]]

\* tx.commit(): the rows of the transaction become the table's, all at once
tx_commit(table, t) ==
    [rows |-> table \o t.inserted,
     tx |-> [t EXCEPT !.state = "committed", !.inserted = <<>>]]

\* a `?` leaves add_cells with the Transaction dropped, which rolls it back
tx_rollback(table, t) ==
    [rows |-> table,
     tx |-> [t EXCEPT !.state = "rolled_back", !.inserted = <<>>]]

Batches ==
    UNION {[1..n -> {CellInsert("main", LEVELS[1], PlainText, <<1, 0>>),
                     CellInsert("main", LEVELS[1], SealedText, <<1, 1>>),
                     CellInsert("other", LEVELS[1], PlainText, <<1, 0>>)}] :
              n \in 0..MaxBatch}

StoreInit ==
    /\ pc = "store_idle"
    /\ rows \in {t \in Tables : Len(t) <= 1}
    /\ \E q \in Queries :
          /\ q.top_k = MaxTopK
          /\ q.sensitivity_threshold = LEVELS[1]
          /\ query = <<q>>
    /\ tx = <<>>
    /\ search = <<>>
    /\ doc = NewDocument
    /\ IdleEncoder /\ IdleCodec /\ IdleCli /\ IdleEmbed /\ IdleLayout /\ IdleAux

\* add_cells: self.connection()?, conn.transaction()?
BeginAddCells ==
    /\ pc = "store_idle"
    /\ \E batch \in Batches :
          tx' = <<[state |-> "open", batch |-> batch, first |-> Len(rows) + 1,
                   inserted |-> <<>>, rest |-> batch]>>
    /\ pc' = "store_tx"
    /\ UNCHANGED <<doc, rows, search, query, encVars, codecVars, cliVars,
                   embedVars, cursor, auxVars>>

\* one turn of the loop: tx.execute(..)? inserts the cell or fails
InsertCell ==
    /\ pc = "store_tx"
    /\ tx[1].rest # <<>>
    /\ \/ LET after == tx_insert(rows, tx[1])
          IN  rows' = after.rows /\ tx' = <<after.tx>> /\ pc' = pc
       \/ LET after == tx_rollback(rows, tx[1])
          IN  rows' = after.rows /\ tx' = <<after.tx>> /\ pc' = "store_done"
    /\ UNCHANGED <<doc, search, query, encVars, codecVars, cliVars,
                   embedVars, cursor, auxVars>>

\* tx.commit()? after the last cell
CommitCells ==
    /\ pc = "store_tx"
    /\ tx[1].rest = <<>>
    /\ \/ LET after == tx_commit(rows, tx[1])
          IN  rows' = after.rows /\ tx' = <<after.tx>>
       \/ LET after == tx_rollback(rows, tx[1])
          IN  rows' = after.rows /\ tx' = <<after.tx>>
    /\ pc' = "store_done"
    /\ UNCHANGED <<doc, search, query, encVars, codecVars, cliVars,
                   embedVars, cursor, auxVars>>

\* search_cells of another caller, on its own connection, at any moment
ConcurrentSearch ==
    /\ pc \in {"store_idle", "store_tx", "store_done"}
    /\ LET found == search_cells(rows, query[1])
       IN  search' = <<[seen |-> {rows[i].id : i \in DOMAIN rows},
                        pending |-> IF tx = <<>> THEN 0 ELSE Len(tx[1].inserted),
                        result |-> found,
                        used |-> used_cells(found, query[1].identity)]>>
    /\ UNCHANGED <<pc, doc, rows, tx, query, encVars, codecVars, cliVars,
                   embedVars, cursor, auxVars>>

StoreNext == BeginAddCells \/ InsertCell \/ CommitCells \/ ConcurrentSearch

SpecStore == StoreInit /\ [][StoreNext]_vars

\* the ids AUTOINCREMENT gives the cells of the batch
BatchIds == tx[1].first .. (tx[1].first + Len(tx[1].batch) - 1)

\* C16: the cells of a batch reach the table all together at commit or not
\* at all: none while the transaction is open or after a failed insert or
\* commit, and a concurrent search sees every cell of the batch or none.
C16_BatchIsAtomic ==
    tx # <<>> =>
        LET persisted == BatchIds \cap {rows[i].id : i \in DOMAIN rows}
        IN  /\ tx[1].state = "committed" =>
                  /\ persisted = BatchIds
                  /\ SubSeq(rows, tx[1].first, Len(rows))
                        = with_ids(tx[1].batch, tx[1].first)
            /\ tx[1].state \in {"open", "rolled_back"} => persisted = {}
            /\ search # <<>> => (search[1].seen \cap BatchIds) \in {{}, BatchIds}

\* C16 witness: a batch of two cells committed after a search ran while one
\* of them was inserted and not yet committed
C16_Witness ==
    /\ tx # <<>> /\ tx[1].state = "committed"
    /\ Len(tx[1].batch) = 2
    /\ search # <<>> /\ search[1].pending = 1
    /\ search[1].seen \cap BatchIds = {}


-----------------------------------------------------------------------------
(* cli/main.rs: the embed command, embed_with_retry and the EmbedCache      *)

MaxChunks == 2

MaxRetryLimit == 2

\* RetryPolicy::new: limit.max(1)
retry_policy_limit(retry_limit) == Max(retry_limit, 1)

hash_text(chunk_text) == [sha256 |-> chunk_text]

\* EmbedCache::make_key: "{namespace}::{chunk_id}::{text_hash}"
make_key(namespace, chunk_id, text_hash) == <<namespace, chunk_id, text_hash>>

CacheKeys(entries) == {e[1] : e \in entries}

\* EmbedCache::get: the namespaced key, or else the bare chunk_id
cache_get(c, chunk_id, text_hash) ==
    LET k == make_key(c.namespace, chunk_id, text_hash)
    IN  IF k \in CacheKeys(c.entries)
        THEN <<(CHOOSE e \in c.entries : e[1] = k)[2]>>
        ELSE IF <<chunk_id>> \in CacheKeys(c.entries)
             THEN <<(CHOOSE e \in c.entries : e[1] = <<chunk_id>>)[2]>>
             ELSE <<>>

\* a mutant of cache_insert: the cache is not marked dirty
cache_insert_not_dirty(c, record, text_hash) ==
    LET k == make_key(c.namespace, record.chunk_id, text_hash)
    IN  [c EXCEPT !.entries = {e \in @ : e[1] # k} \cup {<<k, record>>}]

\* EmbedCache::insert
cache_insert(c, record, text_hash) ==
    LET k == make_key(c.namespace, record.chunk_id, text_hash)
    IN  [c EXCEPT !.entries = {e \in @ : e[1] # k} \cup {<<k, record>>},
                  !.dirty = IF c.path THEN TRUE ELSE @]

RECURSIVE insert_records(_, _)
\* `for record in &pending_results { cache.insert(record.clone(), &text_hash) }`
insert_records(c, records) ==
    IF records = <<>> THEN c
    ELSE insert_records(
             cache_insert(c, Head(records), hash_text(Head(records).text)),
             Tail(records))

\* EmbedCache::flush with the file written: the file holds the whole map
cache_flush(c, file) ==
    IF c.dirty
    THEN [cache |-> [c EXCEPT !.dirty = FALSE],
          file |-> IF c.path THEN <<c.entries>> ELSE file]
    ELSE [cache |-> c, file |-> file]

\* the EmbeddingRecord of a chunk; the vector is what the backend makes of
\* the text
EmbeddingRecord(chunk) ==
    [chunk_id |-> chunk.chunk_id, text |-> chunk.text,
     embedding |-> [vector_of |-> chunk.text]]

Chunks ==
    {[chunk_id |-> i, text |-> t] : i \in {"k1", "k2"}, t \in {"old", "new"}}

ChunkFiles == UNION {[1..n -> Chunks] : n \in 1..MaxChunks}

Namespace == "openai:model"

\* what the cache file may hold before the command: nothing (no file), an
\* empty map, or the record of chunk k1 with text "old" under its key
CacheFiles ==
    { <<>>, <<{}>>,
      <<{<<make_key(Namespace, "k1", hash_text("old")),
           EmbeddingRecord([chunk_id |-> "k1", text |-> "old"])>>}>> }

EmbedCommands ==
    {[name |-> "embed", retry_limit |-> n, cache |-> p, chunks |-> f] :
        n \in 0..MaxRetryLimit, p \in BOOLEAN, f \in ChunkFiles}

EmbedInit ==
    /\ pc = "embed_start"
    /\ \E c \in EmbedCommands : cmd = <<c>>
    /\ cacheFile \in CacheFiles
    /\ cache = <<>>
    /\ workers = <<>>
    /\ alerts = <<>>
    /\ outputs = {}
    /\ status = "running"
    /\ doc = NewDocument
    /\ IdleEncoder /\ IdleCodec /\ IdleRag /\ IdleLayout /\ IdleAux

\* EmbedCache::new, then the loop over the chunk rows: a chunk the cache
\* holds is a cached record, any other is pending
EmbedStart ==
    /\ pc = "embed_start"
    /\ LET loaded == [path |-> cmd[1].cache, namespace |-> Namespace,
                      entries |-> IF cmd[1].cache /\ cacheFile # <<>>
                                  THEN cacheFile[1] ELSE {},
                      dirty |-> FALSE, inserted |-> {}]
           rows_in == cmd[1].chunks
           pending == SelectSeq(rows_in, LAMBDA ch :
                        cache_get(loaded, ch.chunk_id, hash_text(ch.text)) = <<>>)
       IN  /\ cache' = <<loaded>>
           /\ workers' = [i \in DOMAIN pending |->
                            [chunk |-> pending[i], attempt |-> 0, calls |-> 0,
                             state |-> "running", last |-> "none",
                             retried |-> {}]]
    /\ pc' = "embed_pool"
    /\ UNCHANGED <<doc, cmd, alerts, outputs, status, cacheFile, encVars,
                   codecVars, ragVars, cursor, auxVars>>

\* one turn of the loop of embed_with_retry for pending chunk w: the call to
\* backend.embed and the match on its result
BackendCall(w) ==
    /\ pc = "embed_pool"
    /\ w \in DOMAIN workers
    /\ workers[w].state = "running"
    /\ \E outcome \in {"ok", "transient", "fatal"} :
          LET me == workers[w]
              called == [me EXCEPT !.calls = @ + 1,
                            !.retried = IF me.last = "none" THEN @
                                        ELSE @ \cup {me.last}]
          IN  workers' = [workers EXCEPT ![w] =
                 IF outcome = "ok"
                 THEN [called EXCEPT !.state = "ok"]
                 ELSE IF me.attempt + 1 > retry_policy_limit(cmd[1].retry_limit)
                      THEN [called EXCEPT !.attempt = @ + 1, !.last = outcome,
                                          !.state = "err"]
                      ELSE [called EXCEPT !.attempt = @ + 1, !.last = outcome]]
    /\ UNCHANGED <<pc, doc, cache, cacheFile, cliVars, encVars, codecVars,
                   ragVars, cursor, auxVars>>

\* the collect of the pool returns the error of a worker: the command ends
\* before any cache.insert
EmbedFail ==
    /\ pc = "embed_pool"
    /\ \E w \in DOMAIN workers : workers[w].state = "err"
    /\ pc' = "embed_exit"
    /\ status' = "err_backend"
    /\ UNCHANGED <<doc, cmd, alerts, outputs, workers, cache, cacheFile,
                   encVars, codecVars, ragVars, cursor, auxVars>>

\* every pending chunk is embedded: the inserts, cache.flush()? and the
\* embeddings file; creating either file may fail
EmbedFinish ==
    /\ pc = "embed_pool"
    /\ \A w \in DOMAIN workers : workers[w].state = "ok"
    /\ LET records == [w \in DOMAIN workers |-> EmbeddingRecord(workers[w].chunk)]
           filled == [insert_records(cache[1], records) EXCEPT
                        !.inserted = {<<make_key(Namespace, records[w].chunk_id,
                                                 hash_text(records[w].text)),
                                        records[w]>> : w \in DOMAIN records}]
           flushed == cache_flush(filled, cacheFile)
       IN  \/ /\ cache' = <<flushed.cache>>
              /\ cacheFile' = flushed.file
              /\ \/ status' = "ok" /\ outputs' = outputs \cup {"embeddings"}
                 \/ status' = "err_io" /\ outputs' = outputs
           \/ /\ filled.dirty
              /\ cache' = <<filled>>
              /\ cacheFile' = cacheFile
              /\ status' = "err_cache_io"
              /\ outputs' = outputs
    /\ pc' = "embed_exit"
    /\ UNCHANGED <<doc, cmd, alerts, workers, encVars, codecVars, ragVars,
                   cursor, auxVars>>

EmbedNext ==
    \/ EmbedStart
    \/ \E w \in 1..MaxChunks : BackendCall(w)
    \/ EmbedFail
    \/ EmbedFinish

SpecEmbed == EmbedInit /\ [][EmbedNext]_vars

\* C14 as claimed: with a retry_limit of one or more, no call under the retry
\* policy makes more attempts (calls to the backend) than the retry_limit.
C14_AttemptsWithinRetryLimit ==
    \A w \in DOMAIN workers :
        cmd[1].retry_limit >= 1 => workers[w].calls <= cmd[1].retry_limit

\* C15 as claimed: no further attempt follows a non-transient error.
C15_OnlyTransientRetried ==
    \A w \in DOMAIN workers : "fatal" \notin workers[w].retried

\* C17: when an embed command with a cache file finishes, other than on a
\* failure to write that file, every record it inserted into the cache is in
\* the cache file, beside what the file held before.
C17_CacheFlushedOnCompletion ==
    (pc = "embed_exit" /\ cmd[1].cache /\ status # "err_cache_io") =>
        /\ cache[1].inserted # {} =>
              (cacheFile # <<>> /\ cache[1].inserted \subseteq cacheFile[1])
        /\ cacheFile # <<>> => cacheFile[1] = cache[1].entries
        /\ ~cache[1].dirty

\* C17 witness: a command that found one chunk in the cache file, embedded
\* another and finished with both in the file
C17_Witness ==
    /\ pc = "embed_exit" /\ cmd[1].cache /\ status = "ok"
    /\ Len(cmd[1].chunks) = 2 /\ Len(workers) = 1
    /\ cache[1].inserted # {}
    /\ cacheFile # <<>>
    /\ cacheFile[1] \ cache[1].inserted # {}


-----------------------------------------------------------------------------
(* document.rs: from_bytes on a message that to_bytes did not write         *)

\* The ways a stored message is altered: a code_id or sha1 of the wrong
\* length, or a cell type that is none of the five discriminants.
TamperKinds ==
    {"cell_code_id_len", "dict_code_id_len", "sha1_len", "cell_type"}

tamper(msg, kind) ==
    CASE kind = "cell_code_id_len" ->
            [msg EXCEPT !.cells[1].code_id.len = 31]
      [] kind = "dict_code_id_len" ->
            [msg EXCEPT !.dict[1].code_id.len = 33]
      [] kind = "sha1_len" ->
            [msg EXCEPT !.numguards[1].sha1.len = 19]
      [] kind = "cell_type" ->
            [msg EXCEPT !.cells[1].type = Len(CellTypes)]

CanTamper(msg, kind) ==
    CASE kind \in {"cell_code_id_len", "cell_type"} -> msg.cells # <<>>
      [] kind = "dict_code_id_len" -> msg.dict # <<>>
      [] kind = "sha1_len" -> msg.numguards # <<>>

\* the file is altered between to_bytes and from_bytes, once
Tamper ==
    /\ pc = "encoded"
    /\ wire[1] = to_proto(doc)
    /\ \E kind \in TamperKinds :
          /\ CanTamper(wire[1], kind)
          /\ wire' = <<tamper(wire[1], kind)>>
    /\ UNCHANGED <<pc, doc, decoded, encVars, cliVars, ragVars, embedVars,
                   cursor, auxVars>>

DecodeNext == ToBytes \/ Tamper \/ FromBytes

SpecDecode == CodecInit /\ [][DecodeNext]_vars

WireWellFormed(msg) ==
    /\ SlicesFit(msg)
    /\ \A i \in DOMAIN msg.cells :
          msg.cells[i].type \in 0..(Len(CellTypes) - 1)

\* C18 as claimed: decoding a message with a code_id not of 32 bytes, a sha1
\* not of 20 bytes or an unknown cell type returns a Codec error and yields
\* no Document.
C18_MalformedIsCodecError ==
    (pc = "decoded" /\ ~WireWellFormed(wire[1])) =>
        decoded[1].kind = "codec_error"


-----------------------------------------------------------------------------
(* Empty input and empty pages                                             *)

\* the text of an empty file: text.split('\u{c}') yields one chunk, and
\* that chunk has no lines
EmptyText == << <<>> >>

\* a page none of whose lines holds anything but whitespace
EmptyPage(page) == \A i \in DOMAIN page.lines : trim(page.lines[i]) = <<>>

CellsOfPage(page) == {i \in DOMAIN doc.cells : doc.cells[i].z = page.index}

EmptyPagesHaveNoCells ==
    pc = "done" =>
        \A i \in DOMAIN input : EmptyPage(input[i]) => CellsOfPage(input[i]) = {}

\* C19 as claimed: encoding empty input yields an empty Document with no
\* pages and no cells, and every empty page contributes no cells.
C19_EmptyInputEmptyDocument ==
    pc = "done" =>
        /\ text = EmptyText => (doc.pages = <<>> /\ doc.cells = <<>>)
        /\ \A i \in DOMAIN input :
               EmptyPage(input[i]) => CellsOfPage(input[i]) = {}


-----------------------------------------------------------------------------
(* encoder.rs: the position arithmetic of encode_page                      *)

MaxLayoutLines == 2

\* the two profiles of the build: debug checks integer overflow and panics,
\* release wraps (no profile of the workspace sets overflow-checks)
Builds == {"debug", "release"}

\* a + b, a - b or a * b whose mathematical result is v, in u32
u32_arith(v, build) ==
    [value |-> as_u32(v), panic |-> build = "debug" /\ v \notin 0..U32Max]

\* the same in i32
i32_arith(v, build) ==
    [value |-> as_i32(v),
     panic |-> build = "debug" /\ v \notin I32Min..I32Max]

\* (page.width_px as i32 - self.config.margin_left_px * 2).max(0) as u32
cell_width(page_width_px, config, build) ==
    LET doubled == i32_arith(config.margin_left_px * 2, build)
        diff == i32_arith(as_i32(page_width_px) - doubled.value, build)
    IN  [value |-> as_u32(Max(diff.value, 0)),
         panic |-> doubled.panic \/ diff.panic]

\* y += (self.config.line_height_px + self.config.line_gap_px) as i32
advance_y(y, config, build) ==
    LET step == u32_arith(config.line_height_px + config.line_gap_px, build)
        next == i32_arith(y + as_i32(step.value), build)
    IN  [value |-> next.value, panic |-> step.panic \/ next.panic]

\* the fields of EncoderConfig that place a cell; all of them are pub
LayoutConfigs ==
    [margin_left_px : {0, I32Max}, margin_top_px : I32Min..I32Max,
     line_height_px : 0..U32Max, line_gap_px : 0..U32Max]

\* encode_page on a page of `lines` normalized lines, before its loop
LayoutInit ==
    /\ pc = "layout"
    /\ doc = NewDocument
    /\ IdleEncoder /\ IdleCodec /\ IdleCli /\ IdleRag /\ IdleEmbed /\ IdleAux
    /\ \E build \in Builds, config \in LayoutConfigs,
          lines \in 0..MaxLayoutLines :
          cursor = <<[build |-> build, config |-> config,
                      page_width_px |-> I32Max, lines |-> lines,
                      line_index |-> 0, y |-> config.margin_top_px,
                      cells |-> <<>>, outcome |-> "running"]>>

\* one pass of the loop of encode_page
LayoutLine ==
    /\ cursor # <<>>
    /\ cursor[1].outcome = "running"
    /\ cursor[1].line_index < cursor[1].lines
    /\ LET c == cursor[1]
           w == cell_width(c.page_width_px, c.config, c.build)
           y == advance_y(c.y, c.config, c.build)
       IN  cursor' =
             IF w.panic THEN <<[c EXCEPT !.outcome = "panic"]>>
             ELSE IF y.panic
             THEN <<[c EXCEPT !.outcome = "panic",
                              !.cells = Append(@, [y |-> c.y, w |-> w.value])]>>
             ELSE <<[c EXCEPT !.line_index = @ + 1, !.y = y.value,
                              !.cells = Append(@, [y |-> c.y, w |-> w.value])]>>
    /\ UNCHANGED <<pc, doc, encVars, codecVars, cliVars, ragVars, embedVars, auxVars>>

\* the loop is over: Ok(PageResult { cells, .. })
LayoutDone ==
    /\ cursor # <<>>
    /\ cursor[1].outcome = "running"
    /\ cursor[1].line_index = cursor[1].lines
    /\ cursor' = <<[cursor[1] EXCEPT !.outcome = "ok"]>>
    /\ UNCHANGED <<pc, doc, encVars, codecVars, cliVars, ragVars, embedVars, auxVars>>

LayoutNext == LayoutLine \/ LayoutDone

SpecLayout == LayoutInit /\ [][LayoutNext]_vars

\* the position of line i (from 0) of a page, as the integer it stands for
ExactY(config, i) ==
    config.margin_top_px + i * (config.line_height_px + config.line_gap_px)

PositionOverflows ==
    \E i \in 0..(cursor[1].lines - 1) :
        ExactY(cursor[1].config, i) \notin I32Min..I32Max

\* C20 as claimed: if a cell position computed during encode (such as
\* y = margin_top + i * (line_height + line_gap)) overflows a 32-bit signed
\* position, encode fails with a fatal error: it neither returns the page
\* nor panics.
C20_OverflowIsFatalError ==
    (cursor # <<>> /\ cursor[1].outcome # "running" /\ PositionOverflows) =>
        cursor[1].outcome = "error"


-----------------------------------------------------------------------------
(* chunk.rs: Chunker::chunk_document                                       *)

MaxChunkCells == 3

MaxWindow == 2

MaxCellTokens == 2

\* everything but pc and the variable a later section works on
baseVars == <<doc, encVars, codecVars, cliVars, ragVars, embedVars, cursor>>

IdleBase ==
    /\ doc = NewDocument
    /\ IdleEncoder /\ IdleCodec /\ IdleCli /\ IdleRag /\ IdleEmbed
    /\ IdleLayout

saturating_sub(a, b) == IF a > b THEN a - b ELSE 0

\* What the chunker reads of an ordered cell: its type, count_tokens of its
\* payload (0 when payload_for finds none) and whether the payload is
\* missing or holds nothing but whitespace.
ChunkCell(cell_type, tokens, blank) ==
    [cell_type |-> cell_type, tokens |-> tokens, blank |-> blank]

\* token_counts
token_counts(cells) == [i \in DOMAIN cells |-> cells[i].tokens]

\* build_chunk: None when the window is empty or its joined text is blank;
\* start and end count from 0, end exclusive
build_chunk(cells, mode, chunk_index, start, end) ==
    IF start >= end \/ start >= Len(cells) THEN <<>>
    ELSE IF \A i \in (start + 1)..end : cells[i].blank THEN <<>>
    ELSE <<[chunk_index |-> chunk_index, mode |-> mode,
            cell_start |-> start, cell_end |-> saturating_sub(end, 1),
            token_count |->
                LET RECURSIVE sum(_)
                    sum(i) == IF i > end THEN 0 ELSE cells[i].tokens + sum(i + 1)
                IN  sum(start + 1)]>>

\* chunks.push(record); chunk_index += 1, when build_chunk returned a record
push_chunk(c, record) ==
    IF record = <<>> THEN c
    ELSE [c EXCEPT !.chunks = Append(@, record[1]), !.chunk_index = @ + 1]

\* a mutant of cells_next_start: the next window starts where this one ended
cells_next_start_at_end(end, overlap) == end

\* chunk_by_cells: start = if overlap == 0 { end } else { end.saturating_sub(overlap) }
cells_next_start(end, overlap) ==
    IF overlap = 0 THEN end ELSE saturating_sub(end, overlap)

RECURSIVE token_window_end(_, _, _, _, _)
\* chunk_by_tokens: the inner loop that grows the window from `end` on
token_window_end(tokens_per_cell, start, end, used_tokens, max_tokens) ==
    IF end >= Len(tokens_per_cell) THEN end
    ELSE LET cell_tokens == Max(tokens_per_cell[end + 1], 1)
         IN  IF end > start /\ used_tokens + cell_tokens > max_tokens
             THEN end
             ELSE token_window_end(tokens_per_cell, start, end + 1,
                                   used_tokens + cell_tokens, max_tokens)

RECURSIVE token_back_start(_, _, _, _, _)
\* chunk_by_tokens: the loop that walks back from the end of the window
token_back_start(tokens_per_cell, start, new_start, back_tokens, overlap_tokens) ==
    IF new_start > start
    THEN LET stepped == new_start - 1
             back == back_tokens + Max(tokens_per_cell[stepped + 1], 1)
         IN  IF back >= overlap_tokens THEN stepped
             ELSE token_back_start(tokens_per_cell, start, stepped, back,
                                   overlap_tokens)
    ELSE new_start

RECURSIVE heading_window_end(_, _, _, _, _)
\* chunk_by_headings: the inner loop from `end` on
heading_window_end(cells, start, end, tokens, max_tokens) ==
    IF end >= Len(cells) THEN end
    ELSE IF end > start /\ cells[end + 1].cell_type = "Header" THEN end
    ELSE LET total == tokens + cells[end + 1].tokens
         IN  IF max_tokens > 0 /\ total >= max_tokens THEN end + 1
             ELSE heading_window_end(cells, start, end + 1, total, max_tokens)

RECURSIVE table_block_end(_, _)
\* chunk_table_blocks: the end of the run of Table cells
table_block_end(cells, block_end) ==
    IF block_end < Len(cells) /\ cells[block_end + 1].cell_type = "Table"
    THEN table_block_end(cells, block_end + 1)
    ELSE block_end

RECURSIVE table_block_chunks(_, _, _)
\* chunk_table_blocks: the loop over the windows of one block
table_block_chunks(c, start, block_end) ==
    IF start < block_end
    THEN LET end == Min(start + Max(c.config.cells_per_chunk, 1), block_end)
             record == build_chunk(c.cells, c.config.mode, c.chunk_index,
                                   start, end)
         IN  table_block_chunks(push_chunk(c, record), end, block_end)
    ELSE c

ChunkModes == {"Cells", "Tokens", "Headings", "TableRows"}

\* ChunkConfig; the fields a mode does not read are left at 1 and 0
ChunkConfig(mode, cells_per_chunk, overlap_cells, max_tokens, overlap_tokens) ==
    [mode |-> mode, cells_per_chunk |-> cells_per_chunk,
     overlap_cells |-> overlap_cells, max_tokens |-> max_tokens,
     overlap_tokens |-> overlap_tokens]

ChunkConfigs ==
    {ChunkConfig("Cells", n, o, 1, 0) : n, o \in 0..MaxWindow}
    \cup {ChunkConfig("Tokens", 1, 0, m, o) : m, o \in 0..MaxWindow}
    \cup {ChunkConfig("Headings", 1, 0, m, 0) : m \in 0..MaxWindow}
    \cup {ChunkConfig("TableRows", n, 0, 1, 0) : n \in 0..MaxWindow}

\* a cell without a dictionary payload, and cells whose payload has text
ChunkCells ==
    {ChunkCell(t, 0, TRUE) : t \in {"Text", "Header", "Table"}}
    \cup {ChunkCell(t, n, FALSE) :
            t \in {"Text", "Header", "Table"}, n \in 1..MaxCellTokens}

ChunkInit ==
    /\ pc = "chunk_start"
    /\ IdleBase
    /\ \E config \in ChunkConfigs,
          cells \in UNION {[1..n -> ChunkCells] : n \in 0..MaxChunkCells} :
          chunker = <<[config |-> config, cells |-> cells, start |-> 0,
                       chunk_index |-> 0, chunks |-> <<>>]>>
    /\ norms = <<>> /\ reader = <<>> /\ hooks = <<>> /\ indexer = <<>>
    /\ redacted = <<>> /\ colls = <<>>

chunkFrame == <<baseVars, norms, reader, hooks, indexer, redacted, colls>>

\* chunk_document: ordered_cells, the early return and the match on the mode
ChunkStart ==
    /\ pc = "chunk_start"
    /\ pc' = IF chunker[1].cells = <<>> THEN "chunk_done" ELSE "chunk_loop"
    /\ UNCHANGED <<chunker, chunkFrame>>

\* A pass of a loop is taken while the list holds no more chunks than the
\* document has cells: a loop that moves its start forward on every pass
\* never pushes more.
ChunkLoop(mode) ==
    /\ pc = "chunk_loop"
    /\ chunker[1].config.mode = mode
    /\ chunker[1].start < Len(chunker[1].cells)
    /\ Len(chunker[1].chunks) <= Len(chunker[1].cells)

\* one pass of the loop of chunk_by_cells
ChunkPassCells ==
    /\ ChunkLoop("Cells")
    /\ LET c == chunker[1]
           chunk_size == Max(c.config.cells_per_chunk, 1)
           overlap == Min(c.config.overlap_cells, saturating_sub(chunk_size, 1))
           end == Min(c.start + chunk_size, Len(c.cells))
           pushed == push_chunk(c, build_chunk(c.cells, "Cells", c.chunk_index,
                                               c.start, end))
       IN  IF end = Len(c.cells)
           THEN chunker' = <<pushed>> /\ pc' = "chunk_done"
           ELSE LET next == cells_next_start(end, overlap)
                IN  /\ chunker' = <<[pushed EXCEPT !.start = next]>>
                    /\ pc' = IF next < Len(c.cells) THEN "chunk_loop"
                             ELSE "chunk_done"
    /\ UNCHANGED chunkFrame

\* one pass of the outer loop of chunk_by_tokens
ChunkPassTokens ==
    /\ ChunkLoop("Tokens")
    /\ LET c == chunker[1]
           max_tokens == Max(c.config.max_tokens, 1)
           overlap_tokens ==
               Min(c.config.overlap_tokens, saturating_sub(max_tokens, 1))
           tokens_per_cell == token_counts(c.cells)
           grown == token_window_end(tokens_per_cell, c.start, c.start, 0,
                                     max_tokens)
           end == IF grown = c.start THEN grown + 1 ELSE grown
           pushed == push_chunk(c, build_chunk(c.cells, "Tokens", c.chunk_index,
                                               c.start, end))
       IN  IF end = Len(c.cells)
           THEN chunker' = <<pushed>> /\ pc' = "chunk_done"
           ELSE LET next == IF overlap_tokens = 0 THEN end
                            ELSE token_back_start(tokens_per_cell, c.start, end,
                                                  0, overlap_tokens)
                IN  /\ chunker' = <<[pushed EXCEPT !.start = next]>>
                    /\ pc' = IF next < Len(c.cells) THEN "chunk_loop"
                             ELSE "chunk_done"
    /\ UNCHANGED chunkFrame

\* one pass of the outer loop of chunk_by_headings; start is its idx
ChunkPassHeadings ==
    /\ ChunkLoop("Headings")
    /\ LET c == chunker[1]
           idx == c.start
           end == heading_window_end(c.cells, idx, idx, 0, c.config.max_tokens)
           next == IF c.cells[idx + 1].cell_type # "Header" THEN idx + 1 ELSE end
           pushed == IF c.cells[idx + 1].cell_type # "Header" THEN c
                     ELSE push_chunk(c, build_chunk(c.cells, "Headings",
                                                    c.chunk_index, idx, end))
       IN  /\ chunker' = <<[pushed EXCEPT !.start = next]>>
           /\ pc' = IF next < Len(c.cells) THEN "chunk_loop" ELSE "chunk_done"
    /\ UNCHANGED chunkFrame

\* one pass of the outer loop of chunk_table_blocks; start is its idx
ChunkPassTables ==
    /\ ChunkLoop("TableRows")
    /\ LET c == chunker[1]
           idx == c.start
           block_end == table_block_end(c.cells, idx)
           next == IF c.cells[idx + 1].cell_type # "Table" THEN idx + 1
                   ELSE block_end
           pushed == IF c.cells[idx + 1].cell_type # "Table" THEN c
                     ELSE table_block_chunks(c, idx, block_end)
       IN  /\ chunker' = <<[pushed EXCEPT !.start = next]>>
           /\ pc' = IF next < Len(c.cells) THEN "chunk_loop" ELSE "chunk_done"
    /\ UNCHANGED chunkFrame

ChunkNext ==
    \/ ChunkStart
    \/ ChunkPassCells
    \/ ChunkPassTokens
    \/ ChunkPassHeadings
    \/ ChunkPassTables

SpecChunk == ChunkInit /\ [][ChunkNext]_vars

\* the loops of the chunker are sequential code: a pass that can be taken
\* is taken
SpecChunkFair == SpecChunk /\ WF_vars(ChunkNext)


-----------------------------------------------------------------------------
(* Properties of the chunker                                               *)

CellsDone ==
    /\ pc = "chunk_done"
    /\ chunker[1].config.mode = "Cells"

WindowSize == Max(chunker[1].config.cells_per_chunk, 1)

WindowOverlap == Min(chunker[1].config.overlap_cells, WindowSize - 1)

\* the cells of a chunk, as positions from 0
ChunkSpan(chunk) == chunk.cell_start..chunk.cell_end

\* the sliding windows over the ordered cells: window k starts at
\* k * (N - O) and the last one is the first to reach the end
SlidingWindows ==
    LET len == Len(chunker[1].cells)
        step == WindowSize - WindowOverlap
    IN  {[cell_start |-> k * step,
          cell_end |-> Min(k * step + WindowSize, len) - 1] :
            k \in {j \in 0..len : j * step < len /\
                                  (j = 0 \/ (j - 1) * step + WindowSize < len)}}

WindowHasText(window) ==
    \E i \in window.cell_start..window.cell_end :
        ~chunker[1].cells[i + 1].blank

ChunkWindows ==
    {[cell_start |-> chunker[1].chunks[i].cell_start,
      cell_end |-> chunker[1].chunks[i].cell_end] :
        i \in DOMAIN chunker[1].chunks}

SlidingWindowProperties ==
    LET chunks == chunker[1].chunks
    IN  /\ \A i \in DOMAIN chunks :
              Cardinality(ChunkSpan(chunks[i])) <= WindowSize
        /\ \A i \in DOMAIN chunks : i > 1 =>
              Cardinality(ChunkSpan(chunks[i - 1]) \cap ChunkSpan(chunks[i]))
                  = WindowOverlap
        /\ \A p \in 0..(Len(chunker[1].cells) - 1) :
              \E i \in DOMAIN chunks : p \in ChunkSpan(chunks[i])

\* C21 as claimed: in Cells mode with window size N and overlap O each
\* chunk holds at most N consecutive cells, consecutive chunks share exactly
\* min(O, N-1) cells, and every cell lies in at least one chunk.
C21_SlidingWindows == CellsDone => SlidingWindowProperties

\* C21 as amended: in Cells mode the chunks are, in order, the sliding
\* windows with step N - min(O, N-1) that hold a cell with a non-blank
\* payload, numbered from 0 without gaps; when every window holds such a
\* cell, each chunk has at most N consecutive cells, consecutive chunks
\* share exactly min(O, N-1) cells and every cell lies in a chunk.
C21_SlidingWindowsWithText ==
    CellsDone =>
        LET chunks == chunker[1].chunks
        IN  /\ ChunkWindows = {w \in SlidingWindows : WindowHasText(w)}
            /\ \A i \in DOMAIN chunks :
                  /\ chunks[i].chunk_index = i - 1
                  /\ i > 1 => chunks[i - 1].cell_start < chunks[i].cell_start
            /\ (\A w \in SlidingWindows : WindowHasText(w)) =>
                  SlidingWindowProperties

C21_Witness ==
    /\ CellsDone
    /\ Len(chunker[1].cells) = 3
    /\ WindowSize = 2
    /\ WindowOverlap = 1
    /\ Len(chunker[1].chunks) = 2
    /\ \A i \in DOMAIN chunker[1].cells : ~chunker[1].cells[i].blank

\* C25 as claimed: chunk_document terminates and returns its list of chunks
\* for every document and every ChunkConfig, in all four modes.
C25_ChunkingTerminates == <>(pc = "chunk_done")


-----------------------------------------------------------------------------
(* normalization.rs: normalize_lines applied to its own result             *)

MaxNormLines == 2

MaxNormChars == 4

\* raw lines: every string of up to MaxNormChars letters, hyphens and
\* spaces, and two lines with a tab and a no-break space
NormRawLines ==
    UNION {[1..n -> {"a", "-", " "}] : n \in 0..MaxNormChars}
    \cup { <<"a", "\t", NBSP, "a">>, <<NBSP, "a", "-", "\t">> }

HyphenationModes == {"Merge", "Preserve"}

NormInit ==
    /\ pc = "norm_start"
    /\ IdleBase
    /\ \E x \in UNION {[1..n -> NormRawLines] : n \in 0..MaxNormLines},
          mode \in HyphenationModes :
          norms = <<[raw |-> x, mode |-> mode, once |-> <<>>, twice |-> <<>>]>>
    /\ chunker = <<>> /\ reader = <<>> /\ hooks = <<>> /\ indexer = <<>>
    /\ redacted = <<>> /\ colls = <<>>

normFrame == <<baseVars, chunker, reader, hooks, indexer, redacted, colls>>

\* normalize_lines on the raw lines
Normalize ==
    /\ pc = "norm_start"
    /\ norms' = <<[norms[1] EXCEPT
                     !.once = normalize_lines(norms[1].raw, norms[1].mode)]>>
    /\ pc' = "norm_once"
    /\ UNCHANGED normFrame

\* normalize_lines on what normalize_lines returned
NormalizeAgain ==
    /\ pc = "norm_once"
    /\ norms' = <<[norms[1] EXCEPT
                     !.twice = normalize_lines(norms[1].once, norms[1].mode)]>>
    /\ pc' = "norm_twice"
    /\ UNCHANGED normFrame

NormNext == Normalize \/ NormalizeAgain

SpecNormalize == NormInit /\ [][NormNext]_vars

\* C22 as claimed: normalize is idempotent: for every sequence of raw lines
\* x and either hyphenation mode, normalize(normalize(x)) = normalize(x).
C22_NormalizeIdempotent ==
    pc = "norm_twice" => norms[1].twice = norms[1].once

PreserveIsIdempotent ==
    (pc = "norm_twice" /\ norms[1].mode = "Preserve") =>
        norms[1].twice = norms[1].once


-----------------------------------------------------------------------------
(* cli/main.rs: the readers of chunk and embedding JSONL files             *)

MaxJsonlLines == 3

\* A line of a JSONL file, trimmed: the empty line, or a JSON object given
\* by the names of its fields, the value of its row_type field if it has
\* one, and the chunk_id of a record.
JsonLine(fields, row_type, chunk_id) ==
    [fields |-> fields, row_type |-> row_type, chunk_id |-> chunk_id]

BlankLine == JsonLine({}, <<>>, <<>>)

\* serde_json::from_str::<T>(line).is_ok() for the four row structs: every
\* field without #[serde(default)] and not an Option must be there, and
\* fields the struct does not name are ignored
parses_as(line, required) == line # BlankLine /\ required \subseteq line.fields

ChunkMetadataRowFields == {"row_type", "doc"}

EmbeddingMetadataRowFields ==
    {"row_type", "chunk_source", "backend", "dimensions", "seed", "vectors"}

ChunkRecordFields == {"chunk_id", "doc", "chunk_index", "text"}

EmbeddingRecordFields == {"chunk_id", "doc", "chunk_index", "embedding", "text"}

JsonlKinds == {"chunks", "embeddings"}

MetaStruct(kind) ==
    IF kind = "chunks" THEN ChunkMetadataRowFields ELSE EmbeddingMetadataRowFields

MetaRowType(kind) == IF kind = "chunks" THEN "chunk_meta" ELSE "embed_meta"

RecordStruct(kind) == IF kind = "chunks" THEN ChunkRecordFields ELSE EmbeddingRecordFields

\* the lines a writer of this repository or of a later version may emit
JsonLines(kind) ==
    { BlankLine,
      JsonLine(MetaStruct(kind), <<MetaRowType(kind)>>, <<>>),
      JsonLine(MetaStruct(kind), <<"trace_meta">>, <<>>),
      JsonLine({"row_type", "note"}, <<"trace_meta">>, <<>>),
      JsonLine(RecordStruct(kind), <<>>, <<"c1">>),
      JsonLine(RecordStruct(kind), <<>>, <<"c2">>) }

JsonlInit ==
    /\ pc = "jsonl_read"
    /\ IdleBase
    /\ \E kind \in JsonlKinds :
          \E lines \in UNION {[1..n -> JsonLines(kind)] : n \in 0..MaxJsonlLines} :
             reader = <<[kind |-> kind, lines |-> lines, idx |-> 0,
                         metadata |-> <<>>, records |-> <<>>,
                         outcome |-> "running"]>>
    /\ chunker = <<>> /\ norms = <<>> /\ hooks = <<>> /\ indexer = <<>>
    /\ redacted = <<>> /\ colls = <<>>

jsonlFrame == <<baseVars, chunker, norms, hooks, indexer, redacted, colls>>

\* one pass of `for (idx, line) in reader.lines().enumerate()`, in the embed
\* command (chunks, with no --limit) and in load_embeddings_from_jsonl
JsonlLine ==
    /\ pc = "jsonl_read"
    /\ reader[1].idx < Len(reader[1].lines)
    /\ LET r == reader[1]
           line == r.lines[r.idx + 1]
           step == [r EXCEPT !.idx = @ + 1]
       IN  IF line = BlankLine
           THEN reader' = <<step>> /\ pc' = pc
           ELSE IF /\ parses_as(line, MetaStruct(r.kind))
                   /\ line.row_type = <<MetaRowType(r.kind)>>
           THEN /\ reader' = <<IF r.kind = "embeddings"
                               THEN [step EXCEPT !.metadata = <<line>>]
                               ELSE step>>
                /\ pc' = pc
           ELSE IF parses_as(line, RecordStruct(r.kind))
           THEN /\ reader' = <<[step EXCEPT !.records = Append(@, line.chunk_id)]>>
                /\ pc' = pc
           ELSE /\ reader' = <<[r EXCEPT !.outcome = "err_invalid_row"]>>
                /\ pc' = "jsonl_done"
    /\ UNCHANGED jsonlFrame

\* the end of the file: the embeddings reader wants its embed_meta header
JsonlEnd ==
    /\ pc = "jsonl_read"
    /\ reader[1].idx = Len(reader[1].lines)
    /\ reader' = <<[reader[1] EXCEPT !.outcome =
                      IF reader[1].kind = "embeddings" /\ reader[1].metadata = <<>>
                      THEN "err_missing_header" ELSE "ok"]>>
    /\ pc' = "jsonl_done"
    /\ UNCHANGED jsonlFrame

JsonlNext == JsonlLine \/ JsonlEnd

SpecJsonl == JsonlInit /\ [][JsonlNext]_vars

\* an envelope is a line with a row_type, a record a line of the record
\* schema without one
IsEnvelope(line) == line # BlankLine /\ line.row_type # <<>>

IsRecord(line, kind) ==
    parses_as(line, RecordStruct(kind)) /\ line.row_type = <<>>

RECURSIVE RecordIds(_, _)
RecordIds(lines, kind) ==
    IF lines = <<>> THEN <<>>
    ELSE (IF IsRecord(Head(lines), kind) THEN <<Head(lines).chunk_id>> ELSE <<>>)
         \o RecordIds(Tail(lines), kind)

HasHeader(lines, kind) ==
    \E i \in DOMAIN lines : lines[i].row_type = <<MetaRowType(kind)>>

\* C23 as claimed: a reader of a chunk or embedding JSONL file ignores every
\* envelope line whose row_type it does not know and still loads all record
\* lines; an unknown envelope never makes the load fail.
C23_UnknownEnvelopesIgnored ==
    (pc = "jsonl_done" /\ HasHeader(reader[1].lines, reader[1].kind)) =>
        /\ reader[1].outcome = "ok"
        /\ reader[1].records = RecordIds(reader[1].lines, reader[1].kind)


-----------------------------------------------------------------------------
(* doc2dataset/run.rs: run_pipeline                                        *)

MaxSources == 2

\* the exports of RunConfig in the order run_pipeline looks at them
ExportOrder == <<"hf", "llama_factory", "openai", "axolotl", "rag_jsonl">>

\* the fields of RunConfig that decide which hooks are called
RunConfig(sources, tasks, exports) ==
    [sources |-> sources, tasks |-> tasks, exports |-> exports]

RunConfigs ==
    {RunConfig(s, t, e) :
        s \in UNION {[1..n -> {"src_a", "src_b"}] : n \in 0..MaxSources},
        t \in {<<>>, <<"qa">>, <<"qa", "summary">>},
        e \in SUBSET Range(ExportOrder)}

\* a mutant of tasks_wanted: the tasks hook is called whatever the list holds
tasks_wanted_always(run) == TRUE

\* !cfg.tasks.is_empty()
tasks_wanted(run) == run.tasks # <<>>

PipelineInit ==
    /\ pc = "run_start"
    /\ IdleBase
    /\ \E run \in RunConfigs :
          hooks = <<[cfg |-> run, calls |-> <<>>, next |-> 1,
                     outcome |-> "running"]>>
    /\ chunker = <<>> /\ norms = <<>> /\ reader = <<>> /\ indexer = <<>>
    /\ redacted = <<>> /\ colls = <<>>

pipelineFrame == <<baseVars, chunker, norms, reader, indexer, redacted, colls>>

\* a hook is called and returns Ok or Err; `?` ends the run on Err
CallHook(call, pc_ok, next_ok) ==
    \/ /\ hooks' = <<[hooks[1] EXCEPT !.calls = Append(@, call),
                                      !.next = next_ok]>>
       /\ pc' = pc_ok
    \/ /\ hooks' = <<[hooks[1] EXCEPT !.calls = Append(@, call),
                                      !.outcome = "err_hook"]>>
       /\ pc' = "run_done"

\* the check of cfg.sources and fs::create_dir_all(dataset_root)?
PipelineStart ==
    /\ pc = "run_start"
    /\ IF hooks[1].cfg.sources = <<>>
       THEN /\ hooks' = <<[hooks[1] EXCEPT !.outcome = "err_no_source"]>>
            /\ pc' = "run_done"
       ELSE \/ /\ pc' = "run_ingest"
               /\ UNCHANGED hooks
            \/ /\ hooks' = <<[hooks[1] EXCEPT !.outcome = "err_io"]>>
               /\ pc' = "run_done"
    /\ UNCHANGED pipelineFrame

\* one pass of the loop over cfg.sources
PipelineIngest ==
    /\ pc = "run_ingest"
    /\ LET h == hooks[1]
           last == h.next = Len(h.cfg.sources)
       IN  CallHook([hook |-> "ingest", arg |-> h.cfg.sources[h.next]],
                    IF last THEN "run_tasks" ELSE "run_ingest",
                    IF last THEN 1 ELSE h.next + 1)
    /\ UNCHANGED pipelineFrame

\* if !cfg.tasks.is_empty() { tasks_fn(..)? }
PipelineTasks ==
    /\ pc = "run_tasks"
    /\ IF tasks_wanted(hooks[1].cfg)
       THEN CallHook([hook |-> "tasks", arg |-> hooks[1].cfg.tasks],
                     "run_export", 1)
       ELSE pc' = "run_export" /\ UNCHANGED hooks
    /\ UNCHANGED pipelineFrame

\* the next of the five `if` on cfg.exports
PipelineExport ==
    /\ pc = "run_export"
    /\ hooks[1].next <= Len(ExportOrder)
    /\ LET h == hooks[1]
           export == ExportOrder[h.next]
       IN  IF export \in h.cfg.exports
           THEN CallHook([hook |-> "export", arg |-> export],
                         "run_export", h.next + 1)
           ELSE /\ hooks' = <<[h EXCEPT !.next = @ + 1]>>
                /\ pc' = pc
    /\ UNCHANGED pipelineFrame

\* Ok(())
PipelineReturn ==
    /\ pc = "run_export"
    /\ hooks[1].next > Len(ExportOrder)
    /\ hooks' = <<[hooks[1] EXCEPT !.outcome = "ok"]>>
    /\ pc' = "run_done"
    /\ UNCHANGED pipelineFrame

PipelineNext ==
    \/ PipelineStart
    \/ PipelineIngest
    \/ PipelineTasks
    \/ PipelineExport
    \/ PipelineReturn

SpecPipeline == PipelineInit /\ [][PipelineNext]_vars

\* the calls the configuration asks for, in the claimed order
ExpectedCalls(run) ==
    [i \in DOMAIN run.sources |-> [hook |-> "ingest", arg |-> run.sources[i]]]
    \o (IF run.tasks # <<>> THEN <<[hook |-> "tasks", arg |-> run.tasks]>>
        ELSE <<>>)
    \o [i \in 1..Cardinality(run.exports) |->
          [hook |-> "export",
           arg |-> ExportOrder[CHOOSE k \in DOMAIN ExportOrder :
                      /\ ExportOrder[k] \in run.exports
                      /\ Cardinality({j \in 1..k :
                             ExportOrder[j] \in run.exports}) = i]]]

IsPrefix(s, t) == Len(s) <= Len(t) /\ SubSeq(t, 1, Len(s)) = s

\* C24: the hook calls made so far are always a prefix of: one ingest call
\* per configured source in configuration order, then the tasks call if and
\* only if the task list is non-empty, then one export call per enabled
\* export; a run that returns Ok has made exactly these calls. So no tasks
\* or export call happens before the last ingest call has returned.
C24_HooksInFixedOrder ==
    hooks # <<>> =>
        /\ IsPrefix(hooks[1].calls, ExpectedCalls(hooks[1].cfg))
        /\ hooks[1].outcome = "ok" =>
              hooks[1].calls = ExpectedCalls(hooks[1].cfg)

C24_Witness ==
    /\ pc = "run_done"
    /\ hooks[1].outcome = "ok"
    /\ Len(hooks[1].cfg.sources) = 2
    /\ hooks[1].cfg.tasks # <<>>
    /\ Cardinality(hooks[1].cfg.exports) >= 2
    /\ Len(hooks[1].calls) >= 5


-----------------------------------------------------------------------------
(* NumGuard verification of a document fresh from the encoder              *)

FreshAlerts == numguard_mismatches_with_units(doc, <<>>)

FreshIssues == {FreshAlerts[i].issue : i \in DOMAIN FreshAlerts}

\* C26 as claimed: for a document just produced by encode and not modified
\* afterwards, NumGuard verification without a unit whitelist returns no
\* alerts, for any input text and any budget, footer-drop and dedup-window
\* settings.
C26_FreshDocumentHasNoAlerts == pc = "done" => FreshAlerts = <<>>


-----------------------------------------------------------------------------
(* cli/main.rs: rag_index_file, and ingest_document of the service         *)

MaxIndexCells == 2

\* the payloads of the ordered cells of the file; "" is a missing payload
IndexTexts == UNION {[1..n -> {"", "t1", "t2"}] : n \in 0..MaxIndexCells}

\* the documents table before the file is indexed
IndexTables == { <<>>, <<[id |-> 1, source_path |-> "other.txt"]>> }

\* add_document: one INSERT on a connection in autocommit mode, and
\* last_insert_rowid()
add_document(documents, source_path) ==
    Append(documents, [id |-> Len(documents) + 1, source_path |-> source_path])

\* the (text, text_encrypted, encryption) of a CellInsert
index_cell_text(text_, recipient) ==
    IF recipient # <<>>
    THEN IF text_ = "" THEN [text |-> <<>>, text_encrypted |-> <<>>]
         ELSE [text |-> <<>>, text_encrypted |-> <<[age |-> text_]>>]
    ELSE [text |-> IF text_ = "" THEN <<>> ELSE <<text_>>,
          text_encrypted |-> <<>>]

IndexInit ==
    /\ pc = "index_encode"
    /\ IdleBase
    /\ \E texts \in IndexTexts, recipient \in {<<>>, <<"age1">>},
          sensitivity \in {"public", "internal"}, documents \in IndexTables :
          indexer = <<[path |-> "file.txt", texts |-> texts,
                       recipient |-> recipient, sensitivity |-> sensitivity,
                       documents |-> documents, cells |-> <<>>,
                       doc_id |-> <<>>, inserts |-> <<>>,
                       outcome |-> "running"]>>
    /\ chunker = <<>> /\ norms = <<>> /\ reader = <<>> /\ hooks = <<>>
    /\ redacted = <<>> /\ colls = <<>>

indexFrame == <<baseVars, chunker, norms, reader, hooks, redacted, colls>>

IndexFail(error) ==
    /\ indexer' = <<[indexer[1] EXCEPT !.outcome = error]>>
    /\ pc' = "index_done"

\* build_encoder_from_resolved(resolved)? and encoder.encode_path(path)?
IndexEncode ==
    /\ pc = "index_encode"
    /\ \/ pc' = "index_document" /\ UNCHANGED indexer
       \/ IndexFail("err_encode")
    /\ UNCHANGED indexFrame

\* store.add_document(..)?, and the early return for a file without cells
IndexAddDocument ==
    /\ pc = "index_document"
    /\ \/ LET x == indexer[1]
              documents == add_document(x.documents, x.path)
              added == [x EXCEPT !.documents = documents,
                                 !.doc_id = <<Len(documents)>>]
          IN  IF x.texts = <<>>
              THEN indexer' = <<[added EXCEPT !.outcome = "ok"]>>
                   /\ pc' = "index_done"
              ELSE indexer' = <<added>> /\ pc' = "index_embed"
       \/ IndexFail("err_store")
    /\ UNCHANGED indexFrame

\* embed_client.embed_batch(&texts)? and the check of the vector count
IndexEmbed ==
    /\ pc = "index_embed"
    /\ \/ pc' = "index_inserts" /\ UNCHANGED indexer
       \/ IndexFail("err_embed")
       \/ IndexFail("err_vector_count")
    /\ UNCHANGED indexFrame

\* the loop that builds the CellInserts; encrypt_text(text, recipient)? may
\* fail on any cell that has text
IndexBuildInserts ==
    /\ pc = "index_inserts"
    /\ LET x == indexer[1]
       IN  \/ /\ indexer' = <<[x EXCEPT !.inserts =
                   [i \in DOMAIN x.texts |->
                       [sensitivity |-> x.sensitivity,
                        body |-> index_cell_text(x.texts[i], x.recipient)]]]>>
              /\ pc' = "index_cells"
           \/ /\ x.recipient # <<>>
              /\ \E i \in DOMAIN x.texts : x.texts[i] # ""
              /\ IndexFail("err_encrypt")
    /\ UNCHANGED indexFrame

\* store.add_cells(doc_record.id, &inserts)?: all rows or none
IndexAddCells ==
    /\ pc = "index_cells"
    /\ LET x == indexer[1]
       IN  \/ /\ indexer' = <<[x EXCEPT
                   !.cells = @ \o [i \in DOMAIN x.inserts |->
                                     [document_id |-> x.doc_id[1],
                                      insert |-> x.inserts[i]]],
                   !.outcome = "ok"]>>
              /\ pc' = "index_done"
           \/ IndexFail("err_store")
    /\ UNCHANGED indexFrame

IndexNext ==
    \/ IndexEncode
    \/ IndexAddDocument
    \/ IndexEmbed
    \/ IndexBuildInserts
    \/ IndexAddCells

SpecIndex == IndexInit /\ [][IndexNext]_vars

DocumentRowsOf(path) ==
    {i \in DOMAIN indexer[1].documents :
        indexer[1].documents[i].source_path = path}

\* C27 as claimed: indexing a file is all-or-nothing: if embedding,
\* encryption or add_cells fails after the document row was inserted, no
\* document row for that file remains in the store.
C27_IndexAllOrNothing ==
    (pc = "index_done" /\ indexer[1].outcome # "ok") =>
        DocumentRowsOf(indexer[1].path) = {}


-----------------------------------------------------------------------------
(* cli/main.rs: encrypt_file and redact_cells                              *)

MaxRedactCells == 2

\* the limit of short_preview, 96 in redact_cells, scaled to the payloads
PreviewLimit == 3

to_uppercase_char(c) ==
    IF is_lowercase(c)
    THEN UpperLetters[CHOOSE i \in DOMAIN LowerLetters : LowerLetters[i] = c]
    ELSE c

to_uppercase(s) == [i \in DOMAIN s |-> to_uppercase_char(s[i])]

\* format!("{:?}", cell.cell_type)
debug_cell_type(t) ==
    CASE t = "Text" -> <<"T", "e", "x", "t">>
      [] t = "Table" -> <<"T", "a", "b", "l", "e">>
      [] t = "Figure" -> <<"F", "i", "g", "u", "r", "e">>
      [] t = "Footer" -> <<"F", "o", "o", "t", "e", "r">>
      [] t = "Header" -> <<"H", "e", "a", "d", "e", "r">>

RedactedMarker == <<"<", "r", "e", "d", "a", "c", "t", "e", "d", ">">>

MissingMarker == <<"<", "m", "i", "s", "s", "i", "n", "g", ">">>

\* short_preview(payload, limit)
short_preview(payload, limit) ==
    IF Len(payload) <= limit THEN payload
    ELSE SubSeq(payload, 1, limit) \o <<".", ".", ".">>

\* let keep = allow.is_empty() || allow.contains(&ctype)
redact_keep(allow, ctype) == allow = {} \/ ctype \in allow

\* the closure of redact_cells on one ordered cell
redacted_cell(d, allow, idx, cell) ==
    LET ctype == to_uppercase(debug_cell_type(cell.cell_type))
        found == payload_for(d, cell.code_id)
        payload == IF found = <<>> THEN MissingMarker ELSE found[1]
    IN  [cell_index |-> idx, code_hash |-> cell.code_id, z |-> cell.z,
         x |-> cell.x, y |-> cell.y, cell_type |-> ctype,
         text |-> IF redact_keep(allow, ctype) THEN payload ELSE RedactedMarker,
         preview |-> short_preview(payload, PreviewLimit)]

redact_cells(d, types) ==
    LET allow == {to_uppercase(trim(types[i])) : i \in DOMAIN types}
        ordered == ordered_cells(d)
    IN  [i \in DOMAIN ordered |-> redacted_cell(d, allow, i - 1, ordered[i])]

RedactPayloads == { <<"x", "y">>, <<"x", "y", "z", "w", "q">> }

RedactCells ==
    {[z |-> 0, x |-> 64, y |-> y, w |-> 896, h |-> 24,
      code_id |-> hash_payload(p), rle |-> 0, cell_type |-> t,
      importance |-> 135] :
        y \in {64, 94}, p \in RedactPayloads, t \in {"Text", "Table", "Footer"}}

RedactDocs ==
    {[header |-> NewDocument.header,
      pages |-> <<[z |-> 0, width_px |-> 1024, height_px |-> 1400]>>,
      cells |-> cells,
      dict |-> dict, numguards |-> <<>>] :
        cells \in UNION {[1..n -> RedactCells] : n \in 0..MaxRedactCells},
        dict \in { <<>>,
                   << <<hash_payload(<<"x", "y">>), <<"x", "y">> >>,
                      <<hash_payload(<<"x", "y", "z", "w", "q">>),
                        <<"x", "y", "z", "w", "q">> >> >> }}

\* the values of --redact
RedactLists ==
    { << <<"t", "a", "b", "l", "e">> >>,
      << <<" ", "T", "e", "x", "t">> >>,
      << <<"T", "A", "B", "L", "E">>, <<"f", "o", "o", "t", "e", "r">> >> }

RedactInit ==
    /\ pc = "encrypt_start"
    /\ doc \in RedactDocs
    /\ IdleEncoder /\ IdleCodec /\ IdleCli /\ IdleRag /\ IdleEmbed
    /\ IdleLayout
    /\ \E types \in RedactLists :
          redacted = <<[types |-> types, rows |-> <<>>, outcome |-> "running"]>>
    /\ chunker = <<>> /\ norms = <<>> /\ reader = <<>> /\ hooks = <<>>
    /\ indexer = <<>> /\ colls = <<>>

redactFrame == <<baseVars, chunker, norms, reader, hooks, indexer, colls>>

\* encrypt_file up to `data = serde_json::to_vec(&rows)?`, with a list of
\* redact types that is not empty
EncryptRedact ==
    /\ pc = "encrypt_start"
    /\ \/ /\ redacted' = <<[redacted[1] EXCEPT
                               !.rows = redact_cells(doc, redacted[1].types)]>>
          /\ pc' = "encrypt_wrap"
       \/ /\ redacted' = <<[redacted[1] EXCEPT !.outcome = "err_io"]>>
          /\ pc' = "encrypt_done"
    /\ UNCHANGED redactFrame

\* the recipient, the output file and the age writer, each ended by `?`
EncryptWrap ==
    /\ pc = "encrypt_wrap"
    /\ \E result \in {"ok", "err_recipient", "err_io"} :
          redacted' = <<[redacted[1] EXCEPT !.outcome = result]>>
    /\ pc' = "encrypt_done"
    /\ UNCHANGED redactFrame

EncryptNext == EncryptRedact \/ EncryptWrap

SpecRedact == RedactInit /\ [][EncryptNext]_vars

\* the type of a row is named in the --redact list
NamedInList(row) ==
    \E i \in DOMAIN redacted[1].types :
        to_uppercase(trim(redacted[1].types[i])) = row.cell_type

\* the payload text of the cell of a row, if the dictionary holds it
PayloadChars(row) ==
    LET found == payload_for(doc, row.code_hash)
    IN  IF found = <<>> THEN {} ELSE Range(found[1])

\* C28 as claimed: in the redacted cell list written by the whole-file
\* encrypt path, a cell whose type is named in the --redact list carries no
\* part of its payload text in any output field (neither text nor preview).
C28_NamedTypesCarryNoPayload ==
    pc \in {"encrypt_wrap", "encrypt_done"} =>
        \A i \in DOMAIN redacted[1].rows :
            LET row == redacted[1].rows[i]
            IN  NamedInList(row) =>
                  /\ Range(row.text) \cap PayloadChars(row) = {}
                  /\ Range(row.preview) \cap PayloadChars(row) = {}


-----------------------------------------------------------------------------
(* rag/store.rs: ensure_collection, called from several threads            *)

MaxCallers == 3

CollectionNames == {"docs", "notes"}

\* SELECT id FROM collections WHERE name = ?1, as an Option
select_collection(table, name) ==
    LET hits == {i \in DOMAIN table : table[i].name = name}
    IN  IF hits = {} THEN <<>> ELSE <<table[SetMin(hits)].id>>

\* INSERT INTO collections (name) VALUES (?1) under name TEXT NOT NULL
\* UNIQUE and id INTEGER PRIMARY KEY AUTOINCREMENT: the table afterwards, or
\* the constraint error
insert_collection(table, name) ==
    IF select_collection(table, name) # <<>>
    THEN [ok |-> FALSE, table |-> table]
    ELSE [ok |-> TRUE,
          table |-> Append(table, [id |-> Len(table) + 1, name |-> name])]

\* the collections table as init() and earlier calls left it, and the calls
\* under way, each on a connection of its own (spawn_blocking)
CollectionsInit ==
    /\ pc = "collections"
    /\ IdleBase
    /\ \E table \in { <<>>, <<[id |-> 1, name |-> "docs"]>> },
          n \in 1..MaxCallers :
          \E names \in [1..n -> CollectionNames] :
             colls = <<[table |-> table,
                        callers |-> [c \in 1..n |->
                            [name |-> names[c], at |-> "select",
                             result |-> <<>>]]]>>
    /\ chunker = <<>> /\ norms = <<>> /\ reader = <<>> /\ hooks = <<>>
    /\ indexer = <<>> /\ redacted = <<>>

collectionsFrame ==
    <<pc, baseVars, chunker, norms, reader, hooks, indexer, redacted>>

\* the SELECT of ensure_collection and the early return
EnsureSelect(c) ==
    /\ c \in DOMAIN colls[1].callers
    /\ colls[1].callers[c].at = "select"
    /\ LET found == select_collection(colls[1].table, colls[1].callers[c].name)
       IN  colls' = <<[colls[1] EXCEPT !.callers[c] =
                        IF found # <<>>
                        THEN [@ EXCEPT !.at = "returned",
                                       !.result = <<[ok |-> found[1]]>>]
                        ELSE [@ EXCEPT !.at = "insert"]]>>
    /\ UNCHANGED collectionsFrame

\* conn.execute("INSERT ..")? and Ok(conn.last_insert_rowid())
EnsureInsert(c) ==
    /\ c \in DOMAIN colls[1].callers
    /\ colls[1].callers[c].at = "insert"
    /\ LET done == insert_collection(colls[1].table, colls[1].callers[c].name)
       IN  colls' = <<[colls[1] EXCEPT
                        !.table = done.table,
                        !.callers[c] =
                            [@ EXCEPT !.at = "returned",
                                      !.result =
                                          IF done.ok
                                          THEN <<[ok |-> Len(done.table)]>>
                                          ELSE <<[err |-> "unique"]>>]]>>
    /\ UNCHANGED collectionsFrame

CollectionsNext ==
    \/ \E c \in 1..MaxCallers : EnsureSelect(c)
    \/ \E c \in 1..MaxCallers : EnsureInsert(c)

SpecCollections == CollectionsInit /\ [][CollectionsNext]_vars

AllReturned ==
    \A c \in DOMAIN colls[1].callers : colls[1].callers[c].at = "returned"

RowsNamed(name) ==
    {i \in DOMAIN colls[1].table : colls[1].table[i].name = name}

\* C29 as claimed: any number of sequential or concurrent calls of
\* ensure_collection with the same name all succeed and return the same id,
\* and the collections table holds exactly one row for that name.
C29_EnsureCollectionIdempotent ==
    (colls # <<>> /\ AllReturned) =>
        \A c, d \in DOMAIN colls[1].callers :
            colls[1].callers[c].name = colls[1].callers[d].name =>
                /\ "ok" \in DOMAIN colls[1].callers[c].result[1]
                /\ colls[1].callers[c].result = colls[1].callers[d].result
                /\ Cardinality(RowsNamed(colls[1].callers[c].name)) = 1

\* the part of the claim the UNIQUE constraint and the SELECT keep: one row
\* per name, and every call that succeeds returns the id of that row
OneRowPerName ==
    (colls # <<>> /\ AllReturned) =>
        \A c \in DOMAIN colls[1].callers :
            /\ Cardinality(RowsNamed(colls[1].callers[c].name)) = 1
            /\ "ok" \in DOMAIN colls[1].callers[c].result[1] =>
                  <<colls[1].callers[c].result[1].ok>> =
                      select_collection(colls[1].table, colls[1].callers[c].name)


-----------------------------------------------------------------------------
(* What a command has written when the strict check fails                  *)

\* what goes to the output files or to stdout; the warning goes to stderr
FileOrStdout == {"out_bin", "json_out", "rendered_text"}

StrictFailed == pc = "cli_exit" /\ status = "err_strict"

EncodeStrictFailureLeavesNothing ==
    (StrictFailed /\ cmd[1].name = "encode") => outputs \cap FileOrStdout = {}

\* C30 as claimed: when strict numguard checking fails, nothing has been
\* written to the command's output file(s) or printed to stdout before the
\* failure is reported, for both the encode and the decode command.
C30_StrictFailureLeavesNoOutput ==
    StrictFailed => outputs \cap FileOrStdout = {}

=============================================================================
